---- MODULE Spec2Model ----
(***************************************************************************)
(* Doclinger: the ingestion job pipeline of the extraction service.        *)
(*                                                                         *)
(* The model follows backend/src/app:                                      *)
(*   api/routes_extract.py    extract_job, _run_extraction_background,     *)
(*                            _run_extract_subprocess, the _extracting set *)
(*   core/run_extract_job.py  main (the isolated worker process)           *)
(*   core/docling_runner.py   run_docling, _placeholder_extract,           *)
(*                            try_placeholder_fallback                     *)
(*   core/storage.py          the files of a job, clean_storage            *)
(*   api/routes_job.py        get_job, get_job_progress                    *)
(*   core/chunker.py          iter_sections, split_to_token_windows,       *)
(*                            generate_chunks_jsonl                        *)
(*   core/utils.py            sanitize_stem                                *)
(*                                                                         *)
(* Every extraction request has a thread of its own, numbered in order of  *)
(* arrival: it runs the handler and, when the request is accepted, goes on *)
(* as the supervising thread that the handler starts; the worker process   *)
(* it spawns has a program counter of its own.  Job ids are numbered in    *)
(* the order upload_file hands them out.                                   *)
(* Files are modelled by what the pipeline reads back from them.  The      *)
(* stored `artifacts` and `filename` fields of a metadata record are left  *)
(* out: no step of the pipeline reads them.                                *)
(* The file writes of the handler and of the supervising thread succeed    *)
(* (SpecFaults lets them fail); the worker may die at any step, its        *)
(* conversion and the fallback extractor may raise, and the wait for the   *)
(* worker may time out.                                                    *)
(* The functions of chunker.py and utils.py are modelled on strings, a     *)
(* string being the sequence of its characters; each has a specification   *)
(* of its own that calls it on every input of a bounded set.               *)
(***************************************************************************)
EXTENDS Integers, FiniteSets, Sequences, TLC

\* Bounds of the model: the extraction requests sent, the storage cleans requested,
\* the chunk records a document yields, the job and progress reads answered, the lines
\* of a markdown document, the paragraphs of a section text, the token target of a
\* window, the characters of a short filename.
MaxRequests == 2
MaxCleans == 1
MaxChunks == 1
MaxReads == 1
MaxLines == 4
MaxParagraphs == 4
MaxTarget == 3
MaxNameLen == 4

\* Job ids are opaque strings (utils.py generate_job_id); these are the ids upload_file
\* hands out, in this order.
JobIds == <<"job-1", "job-2">>
Jobs == {JobIds[i] : i \in 1..Len(JobIds)}
NoJob == "none"

Threads == 1..MaxRequests
NoThread == 0

VARIABLES
    \* ---- file system (core/storage.py) ----
    uploads,         \* jobs whose upload directory holds the source file
    created,         \* job ids ever handed out by upload_file (uuid4: never reused)
    meta,            \* meta[j]: the <prefix>.metadata.json record, or NoMeta
    docMd,           \* docMd[j]: <prefix>.document.md exists
    docJson,         \* docJson[j]: <prefix>.document_structured.json exists
    chunksFile,      \* chunksFile[j]: number of records in <prefix>.chunks.jsonl, -1 if no file
    manifest,        \* manifest[j]: num_chunks of <prefix>.manifest.json, -1 if no file
    config,          \* config[j]: processing_request.json, named by the thread whose request
                     \* resolved it, NoThread if no file
    progress,        \* progress[j]: percent of progress.json, -1 if no file
    \* ---- service process (api/routes_extract.py) ----
    extracting,      \* _extracting
    extracting_lock, \* holder of _extracting_lock, NoThread if free
    pc,              \* pc[t]: position of thread t in extract_job / _run_extraction_background
    job,             \* job[t]: job_id of the request thread t handles
    resp,            \* resp[t]: response of the request
    exit_code,       \* exit_code[t]: outcome of _run_extract_subprocess
    written,         \* written[t]: read_metadata(job_id) at line 118
    has_doc,         \* has_doc[t]: the directory scan of lines 120-123
    fallback,        \* fallback[t]: result of try_placeholder_fallback, "none" until it ran
    \* ---- worker process (core/run_extract_job.py) ----
    wpc,             \* wpc[t]: position of the worker spawned by thread t, "none" without a
                     \* process, "exit_zero" / "exit_nonzero" once it ended
    wPlaceholder,    \* wPlaceholder[t]: result["placeholder"]
    wNumChunks,      \* wNumChunks[t]: num_chunks
    wCfg,            \* wCfg[t]: the processing configuration the worker read, NoThread for
                     \* the default ProcessingConfig()
    wChunkFailed,    \* wChunkFailed[t]: generate_chunks_jsonl raised (lines 111-112 ran)
    \* ---- history (observation only; no action reads them) ----
    arrived_free,    \* arrived_free[t]: the job of t was not in the guard when its request arrived
    window,          \* window[t]: t did its guard check and its job was not released since
    discards,        \* discards[t]: guard removals done by the supervising task of t
    fbRuns,          \* fbRuns[t]: runs of the fallback extractor by the supervising task of t
    metaWrites,      \* metaWrites[t]: metadata writes of the attempt of t, by status written
    nCleans,         \* storage cleans requested so far
    \* ---- readers (api/routes_job.py) ----
    reply,           \* the response of the last get_job / get_job_progress
    nReads,          \* reads answered so far
    \* ---- chunking engine (core/chunker.py), one call of each function ----
    splitter,        \* iter_sections: its argument, its locals and what it has yielded
    windower,        \* split_to_token_windows: its arguments, its locals, its windows
    writer,          \* generate_chunks_jsonl: its arguments, the records written, the
                     \* count returned
    \* ---- artifact prefix (core/utils.py) ----
    sanitizer        \* sanitize_stem: its argument and its result

fsVars == <<uploads, created, meta, docMd, docJson, chunksFile, manifest, config, progress>>
outVars == <<meta, docMd, docJson, chunksFile, manifest, config, progress>>
guardVars == <<extracting, extracting_lock>>
reqVars == <<pc, job, resp>>
supVars == <<exit_code, written, has_doc, fallback>>
workerVars == <<wpc, wPlaceholder, wNumChunks, wCfg, wChunkFailed>>
histVars == <<arrived_free, window, discards, fbRuns, metaWrites>>
readVars == <<reply, nReads>>
libVars == <<splitter, windower, writer, sanitizer>>
envVars == <<nCleans, readVars, libVars>>
serviceVars == <<fsVars, guardVars, reqVars, supVars, workerVars, histVars, nCleans, readVars>>
vars == <<fsVars, guardVars, reqVars, supVars, workerVars, histVars, envVars>>

-----------------------------------------------------------------------------
(* Metadata records (core/models.py JobMetadata: status, stats, error).    *)

EmptyStats == [k \in {} |-> 0]
NoMeta == [status |-> "none", stats |-> EmptyStats, error |-> "none"]

JobMetadata(status, stats, error) == [status |-> status, stats |-> stats, error |-> error]

Terminal == {"completed", "failed"}

\* the metadata writes of the attempt of t counted, after one more write of `record`
count_write(t, record) ==
    [metaWrites EXCEPT ![t] =
        IF record.status \in Terminal
          THEN [@ EXCEPT !.terminal = @ + 1]
          ELSE [@ EXCEPT !.extracting = @ + 1]]

-----------------------------------------------------------------------------
(* storage.py                                                              *)

\* get_uploaded_file_path(job_id) is not None and exists
upload_exists(j) == j \in uploads

\* read_metadata(job_id): the record, NoMeta standing for None
read_metadata(j) == meta[j]

\* the scan `any(f.name.endswith(".document.md") or
\* f.name.endswith(".document_structured.json"))` of an output directory
has_document(j) == docMd[j] \/ docJson[j]

\* no read answered yet
NoReply == [op |-> "none"]

\* no call of iter_sections under way
SplitterIdle ==
    [pc |-> "idle", markdown |-> <<>>, lines |-> <<>>, current_path |-> <<>>,
     current_section_lines |-> <<>>, yielded |-> <<>>]

\* no call of split_to_token_windows under way
WindowerIdle ==
    [pc |-> "idle", text |-> <<>>, target_tokens |-> 0, overlap_tokens |-> 0,
     paragraphs |-> <<>>, current |-> <<>>, current_tokens |-> 0, windows |-> <<>>,
     cut |-> <<>>]

\* no call of generate_chunks_jsonl under way
WriterIdle ==
    [pc |-> "idle", exists |-> FALSE, markdown |-> <<>>, doc_id |-> <<>>,
     target_tokens |-> 0, overlap_tokens |-> 0, sections |-> <<>>, opened |-> FALSE,
     file |-> <<>>, returned |-> -1]

\* no call of sanitize_stem under way
SanitizerIdle == [pc |-> "idle", filename |-> <<>>, prefix |-> <<>>]

\* the service after start-up: empty storage, empty guard, no request
InitService ==
    /\ uploads = {}
    /\ created = {}
    /\ meta = [j \in Jobs |-> NoMeta]
    /\ docMd = [j \in Jobs |-> FALSE]
    /\ docJson = [j \in Jobs |-> FALSE]
    /\ chunksFile = [j \in Jobs |-> -1]
    /\ manifest = [j \in Jobs |-> -1]
    /\ config = [j \in Jobs |-> NoThread]
    /\ progress = [j \in Jobs |-> -1]
    /\ extracting = {}
    /\ extracting_lock = NoThread
    /\ pc = [t \in Threads |-> "idle"]
    /\ job = [t \in Threads |-> NoJob]
    /\ resp = [t \in Threads |-> "none"]
    /\ exit_code = [t \in Threads |-> "none"]
    /\ written = [t \in Threads |-> NoMeta]
    /\ has_doc = [t \in Threads |-> FALSE]
    /\ fallback = [t \in Threads |-> "none"]
    /\ wpc = [t \in Threads |-> "none"]
    /\ wPlaceholder = [t \in Threads |-> FALSE]
    /\ wNumChunks = [t \in Threads |-> 0]
    /\ wCfg = [t \in Threads |-> NoThread]
    /\ wChunkFailed = [t \in Threads |-> FALSE]
    /\ arrived_free = [t \in Threads |-> FALSE]
    /\ window = [t \in Threads |-> FALSE]
    /\ discards = [t \in Threads |-> 0]
    /\ fbRuns = [t \in Threads |-> 0]
    /\ metaWrites = [t \in Threads |-> [extracting |-> 0, terminal |-> 0]]
    /\ nCleans = 0
    /\ reply = NoReply
    /\ nReads = 0

\* the library functions at rest
LibraryIdle ==
    /\ splitter = SplitterIdle
    /\ windower = WindowerIdle
    /\ writer = WriterIdle
    /\ sanitizer = SanitizerIdle

Init ==
    /\ InitService
    /\ LibraryIdle

-----------------------------------------------------------------------------
(* routes_upload.py, routes_storage.py                                     *)

\* upload_file: a fresh job id, its source file stored under uploads/<job_id>/
upload_file ==
    /\ created # Jobs
    /\ LET j == JobIds[Cardinality(created) + 1]
       IN  /\ created' = created \cup {j}
           /\ uploads' = uploads \cup {j}
    /\ UNCHANGED <<outVars, guardVars, reqVars, supVars, workerVars, histVars, envVars>>

\* clean_storage: every upload and every output directory is removed
clean_storage ==
    /\ \/ uploads # {}
       \/ \E j \in Jobs : meta[j] # NoMeta \/ docMd[j] \/ docJson[j] \/ chunksFile[j] # -1
                          \/ manifest[j] # -1 \/ config[j] # NoThread \/ progress[j] # -1
    /\ uploads' = {}
    /\ meta' = [j \in Jobs |-> NoMeta]
    /\ docMd' = [j \in Jobs |-> FALSE]
    /\ docJson' = [j \in Jobs |-> FALSE]
    /\ chunksFile' = [j \in Jobs |-> -1]
    /\ manifest' = [j \in Jobs |-> -1]
    /\ config' = [j \in Jobs |-> NoThread]
    /\ progress' = [j \in Jobs |-> -1]
    /\ nCleans < MaxCleans
    /\ nCleans' = nCleans + 1
    /\ UNCHANGED <<created, guardVars, reqVars, supVars, workerVars, histVars, readVars,
                   libVars>>

-----------------------------------------------------------------------------
(* routes_job.py: get_job, get_job_progress                                *)

\* storage.py list_artifacts: the files of the output directory other than
\* progress.json and processing_request.json, named without their prefix
list_artifacts(j) ==
    (IF meta[j] # NoMeta THEN {"metadata.json"} ELSE {})
        \cup (IF docMd[j] THEN {"document.md"} ELSE {})
        \cup (IF docJson[j] THEN {"document_structured.json"} ELSE {})
        \cup (IF chunksFile[j] # -1 THEN {"chunks.jsonl"} ELSE {})
        \cup (IF manifest[j] # -1 THEN {"manifest.json"} ELSE {})

\* faulty variant of get_job_response: the stored record is reported as it is, with
\* no look at the documents on disk
get_job_response_stored(j) ==
    IF meta[j] = NoMeta /\ list_artifacts(j) = {} /\ ~upload_exists(j)
      THEN [op |-> "get_job", job |-> j, code |-> 404]
      ELSE LET reported == IF meta[j] = NoMeta
                             THEN JobMetadata("uploaded", EmptyStats, "none")
                             ELSE meta[j]
           IN  [op |-> "get_job", job |-> j, code |-> 200, metadata |-> reported,
                artifacts |-> IF reported.status = "extracting" THEN {}
                              ELSE list_artifacts(j)]

\* faulty variant of get_job_response: a job without a metadata record is not found,
\* whatever else is stored for it
get_job_response_needs_record(j) ==
    IF meta[j] = NoMeta
      THEN [op |-> "get_job", job |-> j, code |-> 404]
      ELSE LET reported ==
                   IF has_document(j) /\ meta[j].status \notin {"completed", "failed"}
                     THEN JobMetadata("completed", meta[j].stats, "none")
                     ELSE meta[j]
           IN  [op |-> "get_job", job |-> j, code |-> 200, metadata |-> reported,
                artifacts |-> IF reported.status = "extracting" THEN {}
                              ELSE list_artifacts(j)]

\* faulty variant of get_job_response: the artifacts are listed whatever the status
get_job_response_all_artifacts(j) ==
    IF meta[j] = NoMeta /\ list_artifacts(j) = {} /\ ~upload_exists(j)
      THEN [op |-> "get_job", job |-> j, code |-> 404]
      ELSE LET reconciled ==
                   IF has_document(j) /\ meta[j].status \notin {"completed", "failed"}
                     THEN JobMetadata("completed", meta[j].stats, "none")
                     ELSE meta[j]
               reported == IF reconciled = NoMeta
                             THEN JobMetadata("uploaded", EmptyStats, "none")
                             ELSE reconciled
           IN  [op |-> "get_job", job |-> j, code |-> 200, metadata |-> reported,
                artifacts |-> list_artifacts(j)]

\* lines 14-53: the response of get_job
get_job_response(j) ==
    LET metadata == read_metadata(j)
        artifacts == list_artifacts(j)
        has_output == has_document(j)
    IN  IF metadata = NoMeta /\ artifacts = {} /\ ~upload_exists(j)
          THEN [op |-> "get_job", job |-> j, code |-> 404]
          ELSE LET reconciled ==
                       IF has_output /\ (metadata = NoMeta
                                           \/ metadata.status \notin {"completed", "failed"})
                         THEN JobMetadata("completed", metadata.stats, "none")
                         ELSE metadata
                   reported ==
                       IF reconciled = NoMeta
                         THEN JobMetadata("uploaded", EmptyStats, "none")
                         ELSE reconciled
               IN  [op |-> "get_job", job |-> j, code |-> 200, metadata |-> reported,
                    artifacts |-> IF reported.status = "extracting" THEN {} ELSE artifacts]

\* GET /job/{job_id}
get_job(j) ==
    /\ nReads < MaxReads
    /\ reply' = get_job_response(j)
    /\ nReads' = nReads + 1
    /\ UNCHANGED <<fsVars, guardVars, reqVars, supVars, workerVars, histVars, nCleans,
                   libVars>>

\* the stage name each write_progress call pairs with its percent
\* (run_extract_job.py 73, 100, 150; docling_runner.py 143-156, 179)
stage_of(percent) ==
    CASE percent = 5 -> "Starting extraction"
      [] percent = 10 -> "Loading document"
      [] percent = 25 -> "Converting document (layout, tables...)"
      [] percent = 60 -> "Document converted"
      [] percent = 75 -> "Generating markdown"
      [] percent = 85 -> "Saving outputs"
      [] percent = 50 -> "Using placeholder extraction"
      [] percent = 90 -> "Chunking"
      [] percent = 100 -> "Complete"

\* faulty variant of get_job_progress_response: a missing snapshot is an error
get_job_progress_response_strict(j) ==
    IF progress[j] = -1
      THEN [op |-> "get_job_progress", job |-> j, code |-> 404]
      ELSE [op |-> "get_job_progress", job |-> j, stage |-> stage_of(progress[j]),
            percent |-> progress[j]]

\* lines 59-62: the response of get_job_progress; read_progress gives None without a
\* progress.json
get_job_progress_response(j) ==
    IF progress[j] = -1
      THEN [op |-> "get_job_progress", job |-> j, stage |-> "pending", percent |-> 0]
      ELSE [op |-> "get_job_progress", job |-> j, stage |-> stage_of(progress[j]),
            percent |-> progress[j]]

\* GET /job/{job_id}/progress
get_job_progress(j) ==
    /\ nReads < MaxReads
    /\ reply' = get_job_progress_response(j)
    /\ nReads' = nReads + 1
    /\ UNCHANGED <<fsVars, guardVars, reqVars, supVars, workerVars, histVars, nCleans,
                   libVars>>

-----------------------------------------------------------------------------
(* routes_extract.py: extract_job                                          *)

\* faulty variant of lock_free: the guard is used without its lock
lock_free_unlocked == TRUE

\* `with _extracting_lock:` can be entered
lock_free == extracting_lock = NoThread

\* faulty variant of in_flight: the membership test never finds the job
in_flight_never(j) == FALSE

\* `job_id in _extracting`
in_flight(j) == j \in extracting

\* lines 159-164: the next request arrives, for job j; 404 without upload
extract_job_begin(t, j) ==
    /\ pc[t] = "idle"
    /\ \A u \in Threads : u < t => pc[u] # "idle"
    /\ job' = [job EXCEPT ![t] = j]
    /\ IF upload_exists(j)
         THEN /\ pc' = [pc EXCEPT ![t] = "ej_lock"]
              /\ resp' = [resp EXCEPT ![t] = "none"]
         ELSE /\ pc' = [pc EXCEPT ![t] = "done"]
              /\ resp' = [resp EXCEPT ![t] = "not_found"]
    /\ arrived_free' = [arrived_free EXCEPT ![t] = ~in_flight(j)]
    /\ UNCHANGED <<fsVars, guardVars, supVars, workerVars, window, discards, fbRuns, metaWrites,
                   envVars>>

\* faulty variant of extract_job_lock: processing_request.json is written before the
\* guard is tested
extract_job_lock_config_first(t) ==
    /\ pc[t] = "ej_lock"
    /\ lock_free
    /\ extracting_lock' = t
    /\ config' = [config EXCEPT ![job[t]] = t]
    /\ pc' = [pc EXCEPT ![t] = "ej_check"]
    /\ UNCHANGED <<uploads, created, meta, docMd, docJson, chunksFile, manifest, progress,
                   extracting, job, resp, supVars, workerVars, histVars, envVars>>

\* line 166: enter `with _extracting_lock:`
extract_job_lock(t) ==
    /\ pc[t] = "ej_lock"
    /\ lock_free
    /\ extracting_lock' = t
    /\ pc' = [pc EXCEPT ![t] = "ej_check"]
    /\ UNCHANGED <<fsVars, extracting, job, resp, supVars, workerVars, histVars, envVars>>

\* lines 167-173: the membership test; "already in progress" leaves the block
extract_job_check(t) ==
    /\ pc[t] = "ej_check"
    /\ window' = [window EXCEPT ![t] = TRUE]
    /\ IF in_flight(job[t])
         THEN /\ resp' = [resp EXCEPT ![t] = "already"]
              /\ pc' = [pc EXCEPT ![t] = "done"]
              /\ extracting_lock' = NoThread
         ELSE /\ pc' = [pc EXCEPT ![t] = "ej_add"]
              /\ UNCHANGED <<resp, extracting_lock>>
    /\ UNCHANGED <<fsVars, extracting, job, supVars, workerVars, arrived_free, discards, fbRuns,
                   metaWrites,
                   envVars>>

\* line 174: _extracting.add(job_id), and the block is left
extract_job_add(t) ==
    /\ pc[t] = "ej_add"
    /\ extracting' = extracting \cup {job[t]}
    /\ extracting_lock' = NoThread
    /\ pc' = [pc EXCEPT ![t] = "ej_config"]
    /\ UNCHANGED <<fsVars, job, resp, supVars, workerVars, histVars, envVars>>

\* faulty variant of extract_job_config: processing_request.json is written only when
\* the output directory holds none, so a retry leaves the file of the earlier attempt
extract_job_config_once(t) ==
    /\ pc[t] = "ej_config"
    /\ config' = [config EXCEPT ![job[t]] = IF @ = NoThread THEN t ELSE @]
    /\ pc' = [pc EXCEPT ![t] = "ej_meta"]
    /\ UNCHANGED <<uploads, created, meta, docMd, docJson, chunksFile, manifest, progress,
                   guardVars, job, resp, supVars, workerVars, histVars, envVars>>

\* lines 176-185: config_data is resolved from the body and processing_request.json written
extract_job_config(t) ==
    /\ pc[t] = "ej_config"
    /\ config' = [config EXCEPT ![job[t]] = t]
    /\ pc' = [pc EXCEPT ![t] = "ej_meta"]
    /\ UNCHANGED <<uploads, created, meta, docMd, docJson, chunksFile, manifest, progress,
                   guardVars, job, resp, supVars, workerVars, histVars, envVars>>

\* lines 187-194: the record written at acceptance
ExtractingMeta == JobMetadata("extracting", EmptyStats, "none")

\* faulty variant of extract_job_meta: acceptance leaves the stored record as it was
extract_job_meta_skip(t) ==
    /\ pc[t] = "ej_meta"
    /\ pc' = [pc EXCEPT ![t] = "ej_thread"]
    /\ UNCHANGED <<fsVars, guardVars, job, resp, supVars, workerVars, histVars, envVars>>

\* line 195: write_metadata(job_id, meta)
extract_job_meta(t) ==
    /\ pc[t] = "ej_meta"
    /\ meta' = [meta EXCEPT ![job[t]] = ExtractingMeta]
    /\ metaWrites' = count_write(t, ExtractingMeta)
    /\ pc' = [pc EXCEPT ![t] = "ej_thread"]
    /\ UNCHANGED <<uploads, created, docMd, docJson, chunksFile, manifest, config, progress,
                   guardVars, job, resp, supVars, workerVars, arrived_free, window, discards, fbRuns, envVars>>

\* lines 197-209: the supervising thread is started and the 202 response returned
extract_job_thread(t) ==
    /\ pc[t] = "ej_thread"
    /\ resp' = [resp EXCEPT ![t] = "started"]
    /\ pc' = [pc EXCEPT ![t] = "bg_spawn"]
    /\ UNCHANGED <<fsVars, guardVars, job, supVars, workerVars, histVars, envVars>>

-----------------------------------------------------------------------------
(* routes_extract.py: _run_extraction_background, _run_extract_subprocess  *)

\* lines 59-62: the record of a fallback that produced the document
FallbackCompletedMeta ==
    JobMetadata("completed", [fallback |-> TRUE, num_chunks |-> 0], "none")

\* line 76: the error recorded for subprocess.TimeoutExpired
TimeoutError == "Extraction timed out"

\* line 109: str(e) of the exception _run_extract_subprocess raised
ExceptionError == "str(e)"

\* line 148: the error recorded when a clean exit left nothing behind
DiagnosticError == "Extraction failed. Check docker logs Docling for details."

\* lines 69-77, 102-110, 141-149: a failed record
FailedMeta(error) == JobMetadata("failed", EmptyStats, error)

\* lines 128-135: the record written when output is found but no record
BareCompletedMeta == JobMetadata("completed", EmptyStats, "none")

\* faulty variant of primary_error: the diagnostic of the no-output case is used for every failure
primary_error_generic(t) == DiagnosticError

\* the error of the primary failure that sent the supervisor to the fallback
primary_error(t) == IF exit_code[t] = "timeout" THEN TimeoutError ELSE ExceptionError

\* lines 52-79 and 85-112: the record written after the fallback ran
fallback_record(t) ==
    IF fallback[t] = "ok" THEN FallbackCompletedMeta ELSE FailedMeta(primary_error(t))

\* faulty variant of has_output: the exit status of the worker is taken as evidence of output
has_output_trusted(t) == TRUE

\* lines 119-125: has_output
has_output(t) == has_doc[t] \/ written[t] # NoMeta

\* faulty variant of run_extract_subprocess_spawn: the supervising thread takes the
\* guard lock before it starts the worker and keeps it over the wait
run_extract_subprocess_spawn_locked(t) ==
    /\ pc[t] = "bg_spawn"
    /\ lock_free
    /\ extracting_lock' = t
    /\ wpc' = [wpc EXCEPT ![t] = "w_begin"]
    /\ pc' = [pc EXCEPT ![t] = "bg_wait"]
    /\ UNCHANGED <<fsVars, extracting, job, resp, supVars,
                   wPlaceholder, wNumChunks, wCfg, wChunkFailed, histVars, envVars>>

\* lines 36-42, worker started: subprocess.run spawns `python -m app.core.run_extract_job`
run_extract_subprocess_spawn(t) ==
    /\ pc[t] = "bg_spawn"
    /\ wpc' = [wpc EXCEPT ![t] = "w_begin"]
    /\ pc' = [pc EXCEPT ![t] = "bg_wait"]
    /\ UNCHANGED <<fsVars, guardVars, job, resp, supVars,
                   wPlaceholder, wNumChunks, wCfg, wChunkFailed, histVars, envVars>>

\* lines 36-42 and 83: subprocess.run raises before a worker runs (spawn failure)
run_extract_subprocess_raise(t) ==
    /\ pc[t] = "bg_spawn"
    /\ exit_code' = [exit_code EXCEPT ![t] = "exception"]
    /\ pc' = [pc EXCEPT ![t] = "bg_fb_md"]
    /\ UNCHANGED <<fsVars, guardVars, job, resp, written, has_doc, fallback,
                   workerVars, histVars, envVars>>

\* lines 43 and 49: the worker has exited; its return code comes back
run_extract_subprocess_return(t) ==
    /\ pc[t] = "bg_wait"
    /\ wpc[t] \in {"exit_zero", "exit_nonzero"}
    /\ exit_code' = [exit_code EXCEPT ![t] = wpc[t]]
    /\ wpc' = [wpc EXCEPT ![t] = "none"]
    /\ pc' = [pc EXCEPT ![t] = "bg_read"]
    /\ UNCHANGED <<fsVars, guardVars, job, resp, written, has_doc, fallback,
                   wPlaceholder, wNumChunks, wCfg, wChunkFailed, histVars, envVars>>

\* faulty variant of run_extract_subprocess_timeout: the wait is given up and
\* TimeoutExpired raised with the worker left running
run_extract_subprocess_timeout_no_kill(t) ==
    /\ pc[t] = "bg_wait"
    /\ wpc[t] \notin {"none", "exit_zero", "exit_nonzero"}
    /\ exit_code' = [exit_code EXCEPT ![t] = "timeout"]
    /\ pc' = [pc EXCEPT ![t] = "bg_fb_md"]
    /\ UNCHANGED <<fsVars, guardVars, job, resp, written, has_doc, fallback, workerVars,
                   histVars, envVars>>

\* lines 39 and 50: timeout=1800 expires; subprocess.run kills the worker, waits for it
\* and raises TimeoutExpired
run_extract_subprocess_timeout(t) ==
    /\ pc[t] = "bg_wait"
    /\ wpc[t] \notin {"none", "exit_zero", "exit_nonzero"}
    /\ wpc' = [wpc EXCEPT ![t] = "none"]
    /\ wPlaceholder' = [wPlaceholder EXCEPT ![t] = FALSE]
    /\ wNumChunks' = [wNumChunks EXCEPT ![t] = 0]
    /\ wCfg' = [wCfg EXCEPT ![t] = NoThread]
    /\ wChunkFailed' = [wChunkFailed EXCEPT ![t] = FALSE]
    /\ exit_code' = [exit_code EXCEPT ![t] = "timeout"]
    /\ pc' = [pc EXCEPT ![t] = "bg_fb_md"]
    /\ UNCHANGED <<fsVars, guardVars, job, resp, written, has_doc, fallback, histVars, envVars>>

\* lines 52/85 -> docling_runner.py 57-67, 70-106: try_placeholder_fallback writes
\* <prefix>.document.md; an exception makes it return False
fallback_write_md(t) ==
    /\ pc[t] = "bg_fb_md"
    /\ fbRuns' = [fbRuns EXCEPT ![t] = @ + 1]
    /\ \/ /\ docMd' = [docMd EXCEPT ![job[t]] = TRUE]
          /\ pc' = [pc EXCEPT ![t] = "bg_fb_json"]
          /\ UNCHANGED fallback
       \/ /\ fallback' = [fallback EXCEPT ![t] = "failed"]
          /\ pc' = [pc EXCEPT ![t] = "bg_fb_meta"]
          /\ UNCHANGED docMd
    /\ UNCHANGED <<uploads, created, meta, docJson, chunksFile, manifest, config, progress,
                   guardVars, job, resp, exit_code, written, has_doc,
                   workerVars, arrived_free, window, discards, metaWrites, envVars>>

\* docling_runner.py 107-113: <prefix>.document_structured.json is written
fallback_write_json(t) ==
    /\ pc[t] = "bg_fb_json"
    /\ \/ /\ docJson' = [docJson EXCEPT ![job[t]] = TRUE]
          /\ pc' = [pc EXCEPT ![t] = "bg_fb_exists"]
          /\ UNCHANGED fallback
       \/ /\ fallback' = [fallback EXCEPT ![t] = "failed"]
          /\ pc' = [pc EXCEPT ![t] = "bg_fb_meta"]
          /\ UNCHANGED docJson
    /\ UNCHANGED <<uploads, created, meta, docMd, chunksFile, manifest, config, progress,
                   guardVars, job, resp, exit_code, written, has_doc,
                   workerVars, histVars, envVars>>

\* docling_runner.py 64: return (output_dir / f"{prefix}.document.md").exists()
fallback_exists(t) ==
    /\ pc[t] = "bg_fb_exists"
    /\ fallback' = [fallback EXCEPT ![t] = IF docMd[job[t]] THEN "ok" ELSE "failed"]
    /\ pc' = [pc EXCEPT ![t] = "bg_fb_meta"]
    /\ UNCHANGED <<fsVars, guardVars, job, resp, exit_code, written, has_doc,
                   workerVars, histVars, envVars>>

\* lines 53-79 and 86-112: the terminal record after the fallback
fallback_write_metadata(t) ==
    /\ pc[t] = "bg_fb_meta"
    /\ meta' = [meta EXCEPT ![job[t]] = fallback_record(t)]
    /\ metaWrites' = count_write(t, fallback_record(t))
    /\ pc' = [pc EXCEPT ![t] = "bg_lock"]
    /\ UNCHANGED <<uploads, created, docMd, docJson, chunksFile, manifest, config, progress,
                   guardVars, job, resp, supVars, workerVars, arrived_free, window, discards, fbRuns, envVars>>

\* line 118: written = read_metadata(job_id)
background_read(t) ==
    /\ pc[t] = "bg_read"
    /\ written' = [written EXCEPT ![t] = read_metadata(job[t])]
    /\ pc' = [pc EXCEPT ![t] = "bg_scan"]
    /\ UNCHANGED <<fsVars, guardVars, job, resp, exit_code, has_doc, fallback,
                   workerVars, histVars, envVars>>

\* lines 120-123: the scan of the output directory for a converted document
background_scan(t) ==
    /\ pc[t] = "bg_scan"
    /\ has_doc' = [has_doc EXCEPT ![t] = has_document(job[t])]
    /\ pc' = [pc EXCEPT ![t] = "bg_finalize"]
    /\ UNCHANGED <<fsVars, guardVars, job, resp, exit_code, written, fallback,
                   workerVars, histVars, envVars>>

\* lines 127-151: the record is kept, completed, or overridden to failed
background_finalize(t) ==
    /\ pc[t] = "bg_finalize"
    /\ meta' = [meta EXCEPT ![job[t]] =
                  IF has_output(t)
                    THEN IF written[t] = NoMeta THEN BareCompletedMeta ELSE @
                    ELSE FailedMeta(DiagnosticError)]
    /\ metaWrites' = IF has_output(t) /\ written[t] # NoMeta
                       THEN metaWrites
                       ELSE count_write(t, meta'[job[t]])
    /\ pc' = [pc EXCEPT ![t] = "bg_lock"]
    /\ UNCHANGED <<uploads, created, docMd, docJson, chunksFile, manifest, config, progress,
                   guardVars, job, resp, supVars, workerVars, arrived_free, window, discards, fbRuns, envVars>>

\* lines 80, 113, 152: enter `with _extracting_lock:`
background_lock(t) ==
    /\ pc[t] = "bg_lock"
    /\ lock_free
    /\ extracting_lock' = t
    /\ pc' = [pc EXCEPT ![t] = "bg_discard"]
    /\ UNCHANGED <<fsVars, extracting, job, resp, supVars, workerVars, histVars, envVars>>

\* faulty variant of background_discard: the timeout path ends without the discard
background_discard_not_on_timeout(t) ==
    /\ pc[t] = "bg_discard"
    /\ extracting' = IF exit_code[t] = "timeout" THEN extracting ELSE extracting \ {job[t]}
    /\ extracting_lock' = NoThread
    /\ discards' = [discards EXCEPT ![t] = IF exit_code[t] = "timeout" THEN @ ELSE @ + 1]
    /\ window' = [u \in Threads |-> IF job[u] = job[t] THEN FALSE ELSE window[u]]
    /\ pc' = [pc EXCEPT ![t] = "done"]
    /\ exit_code' = [exit_code EXCEPT ![t] = "none"]
    /\ written' = [written EXCEPT ![t] = NoMeta]
    /\ has_doc' = [has_doc EXCEPT ![t] = FALSE]
    /\ fallback' = [fallback EXCEPT ![t] = "none"]
    /\ fbRuns' = [fbRuns EXCEPT ![t] = 0]
    /\ UNCHANGED <<fsVars, job, resp, workerVars, arrived_free, metaWrites, envVars>>

\* lines 81, 114, 153: _extracting.discard(job_id); the thread ends and its locals go
background_discard(t) ==
    /\ pc[t] = "bg_discard"
    /\ extracting' = extracting \ {job[t]}
    /\ extracting_lock' = NoThread
    /\ discards' = [discards EXCEPT ![t] = @ + 1]
    /\ window' = [u \in Threads |-> IF job[u] = job[t] THEN FALSE ELSE window[u]]
    /\ pc' = [pc EXCEPT ![t] = "done"]
    /\ exit_code' = [exit_code EXCEPT ![t] = "none"]
    /\ written' = [written EXCEPT ![t] = NoMeta]
    /\ has_doc' = [has_doc EXCEPT ![t] = FALSE]
    /\ fallback' = [fallback EXCEPT ![t] = "none"]
    /\ fbRuns' = [fbRuns EXCEPT ![t] = 0]
    /\ UNCHANGED <<fsVars, job, resp, workerVars, arrived_free, metaWrites, envVars>>

-----------------------------------------------------------------------------
(* run_extract_job.py: main, with docling_runner.py run_docling inlined    *)

\* the worker of thread t is running
worker_running(t) == wpc[t] \notin {"none", "exit_zero", "exit_nonzero"}

\* the worker process ends, sys.exit(main()), and its memory goes
worker_exit(t, code) ==
    /\ wpc' = [wpc EXCEPT ![t] = code]
    /\ wPlaceholder' = [wPlaceholder EXCEPT ![t] = FALSE]
    /\ wNumChunks' = [wNumChunks EXCEPT ![t] = 0]
    /\ wCfg' = [wCfg EXCEPT ![t] = NoThread]
    /\ wChunkFailed' = [wChunkFailed EXCEPT ![t] = FALSE]

\* lines 87-96: the record the worker writes when run_docling raised
WorkerFailedMeta == JobMetadata("failed", EmptyStats, "str(e)")

\* lines 127-140: the record the worker writes at the end
WorkerCompletedMeta(t) ==
    JobMetadata("completed",
                [num_chunks |-> wNumChunks[t], placeholder |-> wPlaceholder[t]], "none")

\* the process dies at any point with a non-zero status: killed by the kernel (OOM),
\* an import that fails (lines 24-39), an exception main does not catch
worker_crash(t) ==
    /\ worker_running(t)
    /\ worker_exit(t, "exit_nonzero")
    /\ UNCHANGED <<fsVars, guardVars, reqVars, supVars, histVars, envVars>>

\* lines 41-45: without the uploaded file main returns 1
main_begin(t) ==
    /\ wpc[t] = "w_begin"
    /\ IF upload_exists(job[t])
         THEN /\ wpc' = [wpc EXCEPT ![t] = "w_config"]
              /\ UNCHANGED <<wPlaceholder, wNumChunks, wCfg, wChunkFailed>>
         ELSE worker_exit(t, "exit_nonzero")
    /\ UNCHANGED <<fsVars, guardVars, reqVars, supVars, histVars, envVars>>

\* lines 51-62: processing_request.json is read, the default taken without it
main_config(t) ==
    /\ wpc[t] = "w_config"
    /\ wCfg' = [wCfg EXCEPT ![t] = config[job[t]]]
    /\ wpc' = [wpc EXCEPT ![t] = "w_progress5"]
    /\ UNCHANGED <<fsVars, guardVars, reqVars, supVars, wPlaceholder, wNumChunks,
                   wChunkFailed, histVars, envVars>>

\* write_progress(job_id, stage, percent) from the worker of t, which moves on to `next`
worker_progress(t, at, percent, next) ==
    /\ wpc[t] = at
    /\ progress' = [progress EXCEPT ![job[t]] = percent]
    /\ wpc' = [wpc EXCEPT ![t] = next]
    /\ UNCHANGED <<uploads, created, meta, docMd, docJson, chunksFile, manifest, config,
                   guardVars, reqVars, supVars, wPlaceholder, wNumChunks, wCfg, wChunkFailed,
                   histVars, envVars>>

\* line 73: write_progress(job_id, "Starting extraction", 5)
main_progress_start(t) == worker_progress(t, "w_progress5", 5, "w_docling")

\* docling_runner.py 136-145 and 179: run_docling starts. A missing input raises; with
\* the engine installed it reports 5 (a report that raises sends it to the placeholder
\* extraction, as every exception of lines 144-175 does), without it it reports 50
run_docling_begin(t) ==
    /\ wpc[t] = "w_docling"
    /\ IF ~upload_exists(job[t])
         THEN /\ wpc' = [wpc EXCEPT ![t] = "w_except"]
              /\ UNCHANGED progress
         ELSE \/ /\ progress' = [progress EXCEPT ![job[t]] = 5]
                 /\ wpc' = [wpc EXCEPT ![t] = "w_import"]
              \/ /\ wpc' = [wpc EXCEPT ![t] = "w_ph_md"]
                 /\ UNCHANGED progress
              \/ /\ progress' = [progress EXCEPT ![job[t]] = 50]
                 /\ wpc' = [wpc EXCEPT ![t] = "w_ph_md"]
    /\ UNCHANGED <<uploads, created, meta, docMd, docJson, chunksFile, manifest, config,
                   guardVars, reqVars, supVars, wPlaceholder, wNumChunks, wCfg, wChunkFailed,
                   histVars, envVars>>

\* a step of the engine branch of run_docling (lines 144-156) from position `at`: the
\* call succeeds and the next checkpoint is reported, or it raises and the
\* placeholder extraction takes over
run_docling_step(t, at, percent, next) ==
    /\ wpc[t] = at
    /\ \/ /\ progress' = [progress EXCEPT ![job[t]] = percent]
          /\ wpc' = [wpc EXCEPT ![t] = next]
       \/ /\ wpc' = [wpc EXCEPT ![t] = "w_ph_md"]
          /\ UNCHANGED progress
    /\ UNCHANGED <<uploads, created, meta, docMd, docJson, chunksFile, manifest, config,
                   guardVars, reqVars, supVars, wPlaceholder, wNumChunks, wCfg, wChunkFailed,
                   histVars, envVars>>

\* docling_runner.py 146-148: the engine is imported and 10 reported
run_docling_import(t) == run_docling_step(t, "w_import", 10, "w_build")

\* docling_runner.py 149-150: _build_converter() and 25 reported
run_docling_build(t) == run_docling_step(t, "w_build", 25, "w_convert")

\* docling_runner.py 151-152: converter.convert returns and 60 is reported
run_docling_convert(t) == run_docling_step(t, "w_convert", 60, "w_document")

\* docling_runner.py 153-154: result.document is taken and 75 reported
run_docling_document(t) == run_docling_step(t, "w_document", 75, "w_export")

\* docling_runner.py 155-156: export_to_markdown() and 85 reported
run_docling_export(t) == run_docling_step(t, "w_export", 85, "w_md")

\* docling_runner.py 157-158: the engine's markdown is written (or the write raises)
run_docling_md(t) ==
    /\ wpc[t] = "w_md"
    /\ \/ /\ docMd' = [docMd EXCEPT ![job[t]] = TRUE]
          /\ wpc' = [wpc EXCEPT ![t] = "w_json"]
       \/ /\ wpc' = [wpc EXCEPT ![t] = "w_ph_md"]
          /\ UNCHANGED docMd
    /\ UNCHANGED <<uploads, created, meta, docJson, chunksFile, manifest, config, progress,
                   guardVars, reqVars, supVars, wPlaceholder, wNumChunks, wCfg, wChunkFailed,
                   histVars, envVars>>

\* docling_runner.py 159-175: the structured document is written and the summary
\* returned with placeholder False (or the write raises)
run_docling_json(t) ==
    /\ wpc[t] = "w_json"
    /\ \/ /\ docJson' = [docJson EXCEPT ![job[t]] = TRUE]
          /\ wPlaceholder' = [wPlaceholder EXCEPT ![t] = FALSE]
          /\ wpc' = [wpc EXCEPT ![t] = "w_progress90"]
       \/ /\ wpc' = [wpc EXCEPT ![t] = "w_ph_md"]
          /\ UNCHANGED <<docJson, wPlaceholder>>
    /\ UNCHANGED <<uploads, created, meta, docMd, chunksFile, manifest, config, progress,
                   guardVars, reqVars, supVars, wNumChunks, wCfg, wChunkFailed, histVars,
                   envVars>>

\* docling_runner.py 70-106: _placeholder_extract writes the markdown; an exception
\* leaves run_docling and reaches main's handler
placeholder_extract_md(t) ==
    /\ wpc[t] = "w_ph_md"
    /\ \/ /\ docMd' = [docMd EXCEPT ![job[t]] = TRUE]
          /\ wpc' = [wpc EXCEPT ![t] = "w_ph_json"]
       \/ /\ wpc' = [wpc EXCEPT ![t] = "w_except"]
          /\ UNCHANGED docMd
    /\ UNCHANGED <<uploads, created, meta, docJson, chunksFile, manifest, config, progress,
                   guardVars, reqVars, supVars, wPlaceholder, wNumChunks, wCfg, wChunkFailed,
                   histVars, envVars>>

\* docling_runner.py 107-118: _placeholder_extract writes the structured document and
\* returns placeholder True
placeholder_extract_json(t) ==
    /\ wpc[t] = "w_ph_json"
    /\ \/ /\ docJson' = [docJson EXCEPT ![job[t]] = TRUE]
          /\ wPlaceholder' = [wPlaceholder EXCEPT ![t] = TRUE]
          /\ wpc' = [wpc EXCEPT ![t] = "w_progress90"]
       \/ /\ wpc' = [wpc EXCEPT ![t] = "w_except"]
          /\ UNCHANGED <<docJson, wPlaceholder>>
    /\ UNCHANGED <<uploads, created, meta, docMd, chunksFile, manifest, config, progress,
                   guardVars, reqVars, supVars, wNumChunks, wCfg, wChunkFailed, histVars,
                   envVars>>

\* lines 81-98: run_docling raised; a failed record is written if the write goes
\* through (its own failure is swallowed) and main returns 1
main_except(t) ==
    /\ wpc[t] = "w_except"
    /\ \/ /\ meta' = [meta EXCEPT ![job[t]] = WorkerFailedMeta]
          /\ metaWrites' = count_write(t, WorkerFailedMeta)
       \/ UNCHANGED <<meta, metaWrites>>
    /\ worker_exit(t, "exit_nonzero")
    /\ UNCHANGED <<uploads, created, docMd, docJson, chunksFile, manifest, config, progress,
                   guardVars, reqVars, supVars, arrived_free, window, discards, fbRuns, envVars>>

\* faulty variant of main_progress_chunking: the chunking checkpoint lies below the
\* last checkpoint of the conversion
main_progress_chunking_low(t) == worker_progress(t, "w_progress90", 80, "w_chunk")

\* line 100: write_progress(job_id, "Chunking", 90)
main_progress_chunking(t) == worker_progress(t, "w_progress90", 90, "w_chunk")

\* faulty variant of main_chunk: an exception of generate_chunks_jsonl is not caught
\* and reaches the handler of a failed conversion
main_chunk_fatal(t) ==
    /\ wpc[t] = "w_chunk"
    /\ IF docMd[job[t]]
         THEN \/ /\ \E n \in 0..MaxChunks :
                       /\ chunksFile' = [chunksFile EXCEPT ![job[t]] = n]
                       /\ wNumChunks' = [wNumChunks EXCEPT ![t] = n]
                 /\ wpc' = [wpc EXCEPT ![t] = "w_manifest"]
                 /\ UNCHANGED wChunkFailed
              \/ /\ \E n \in {chunksFile[job[t]]} \cup (0..MaxChunks) :
                        chunksFile' = [chunksFile EXCEPT ![job[t]] = n]
                 /\ wNumChunks' = [wNumChunks EXCEPT ![t] = 0]
                 /\ wChunkFailed' = [wChunkFailed EXCEPT ![t] = TRUE]
                 /\ wpc' = [wpc EXCEPT ![t] = "w_except"]
         ELSE /\ wpc' = [wpc EXCEPT ![t] = "w_manifest"]
              /\ UNCHANGED <<chunksFile, wNumChunks, wChunkFailed>>
    /\ UNCHANGED <<uploads, created, meta, docMd, docJson, manifest, config, progress,
                   guardVars, reqVars, supVars, wPlaceholder, wCfg, histVars, envVars>>

\* lines 101-112: generate_chunks_jsonl over the markdown if it exists. It returns the
\* number of records it wrote; an exception is logged and leaves num_chunks 0, with the
\* chunks file untouched or holding the records written before the exception
main_chunk(t) ==
    /\ wpc[t] = "w_chunk"
    /\ IF docMd[job[t]]
         THEN \/ /\ \E n \in 0..MaxChunks :
                       /\ chunksFile' = [chunksFile EXCEPT ![job[t]] = n]
                       /\ wNumChunks' = [wNumChunks EXCEPT ![t] = n]
                 /\ UNCHANGED wChunkFailed
              \/ /\ \E n \in {chunksFile[job[t]]} \cup (0..MaxChunks) :
                        chunksFile' = [chunksFile EXCEPT ![job[t]] = n]
                 /\ wNumChunks' = [wNumChunks EXCEPT ![t] = 0]
                 /\ wChunkFailed' = [wChunkFailed EXCEPT ![t] = TRUE]
         ELSE UNCHANGED <<chunksFile, wNumChunks, wChunkFailed>>
    /\ wpc' = [wpc EXCEPT ![t] = "w_manifest"]
    /\ UNCHANGED <<uploads, created, meta, docMd, docJson, manifest, config, progress,
                   guardVars, reqVars, supVars, wPlaceholder, wCfg, histVars, envVars>>

\* lines 114-124: the manifest is written
main_manifest(t) ==
    /\ wpc[t] = "w_manifest"
    /\ manifest' = [manifest EXCEPT ![job[t]] = wNumChunks[t]]
    /\ wpc' = [wpc EXCEPT ![t] = "w_meta"]
    /\ UNCHANGED <<uploads, created, meta, docMd, docJson, chunksFile, config, progress,
                   guardVars, reqVars, supVars, wPlaceholder, wNumChunks, wCfg, wChunkFailed,
                   histVars, envVars>>

\* lines 125-148: the completed record is written (write_metadata, or the minimal
\* write of the same record to the same path when write_metadata raised)
main_metadata(t) ==
    /\ wpc[t] = "w_meta"
    /\ meta' = [meta EXCEPT ![job[t]] = WorkerCompletedMeta(t)]
    /\ metaWrites' = count_write(t, WorkerCompletedMeta(t))
    /\ wpc' = [wpc EXCEPT ![t] = "w_progress100"]
    /\ UNCHANGED <<uploads, created, docMd, docJson, chunksFile, manifest, config, progress,
                   guardVars, reqVars, supVars, wPlaceholder, wNumChunks, wCfg, wChunkFailed,
                   arrived_free, window, discards, fbRuns, envVars>>

\* lines 150-151: write_progress(job_id, "Complete", 100); return 0
main_complete(t) ==
    /\ wpc[t] = "w_progress100"
    /\ progress' = [progress EXCEPT ![job[t]] = 100]
    /\ worker_exit(t, "exit_zero")
    /\ UNCHANGED <<uploads, created, meta, docMd, docJson, chunksFile, manifest, config,
                   guardVars, reqVars, supVars, histVars, envVars>>

-----------------------------------------------------------------------------
(* The pipeline                                                            *)

Handler(t) ==
    \/ \E j \in Jobs : extract_job_begin(t, j)
    \/ extract_job_lock(t)
    \/ extract_job_check(t)
    \/ extract_job_add(t)
    \/ extract_job_config(t)
    \/ extract_job_meta(t)
    \/ extract_job_thread(t)

Supervisor(t) ==
    \/ run_extract_subprocess_spawn(t)
    \/ run_extract_subprocess_raise(t)
    \/ run_extract_subprocess_return(t)
    \/ run_extract_subprocess_timeout(t)
    \/ fallback_write_md(t)
    \/ fallback_write_json(t)
    \/ fallback_exists(t)
    \/ fallback_write_metadata(t)
    \/ background_read(t)
    \/ background_scan(t)
    \/ background_finalize(t)
    \/ background_lock(t)
    \/ background_discard(t)

Worker(t) ==
    \/ worker_crash(t)
    \/ main_begin(t)
    \/ main_config(t)
    \/ main_progress_start(t)
    \/ run_docling_begin(t)
    \/ run_docling_import(t)
    \/ run_docling_build(t)
    \/ run_docling_convert(t)
    \/ run_docling_document(t)
    \/ run_docling_export(t)
    \/ run_docling_md(t)
    \/ run_docling_json(t)
    \/ placeholder_extract_md(t)
    \/ placeholder_extract_json(t)
    \/ main_except(t)
    \/ main_progress_chunking(t)
    \/ main_chunk(t)
    \/ main_manifest(t)
    \/ main_metadata(t)
    \/ main_complete(t)

Pipeline ==
    \/ \E t \in Threads : Handler(t)
    \/ \E t \in Threads : Supervisor(t)
    \/ \E t \in Threads : Worker(t)

\* One document is uploaded; requests name any job id; storage may be cleaned.
Next ==
    \/ created = {} /\ upload_file
    \/ clean_storage
    \/ Pipeline

Spec == Init /\ [][Next]_vars

\* Every job id gets its document, and the pipelines of different jobs run side by
\* side; storage is not cleaned.
NextJobs ==
    \/ upload_file
    \/ Pipeline

SpecJobs == Init /\ [][NextJobs]_vars

\* lines 54, 67, 87, 100, 137, 139: write_metadata raises (OSError: disk full, read-only
\* mount). No handler of _run_extraction_background catches it there: the exception
\* leaves the function and the supervising thread ends with it, its locals gone.
write_metadata_raise(t) ==
    /\ \/ pc[t] = "bg_fb_meta"
       \/ pc[t] = "bg_finalize" /\ ~(has_output(t) /\ written[t] # NoMeta)
    /\ pc' = [pc EXCEPT ![t] = "bg_raised"]
    /\ exit_code' = [exit_code EXCEPT ![t] = "none"]
    /\ written' = [written EXCEPT ![t] = NoMeta]
    /\ has_doc' = [has_doc EXCEPT ![t] = FALSE]
    /\ fallback' = [fallback EXCEPT ![t] = "none"]
    /\ fbRuns' = [fbRuns EXCEPT ![t] = 0]
    /\ UNCHANGED <<fsVars, guardVars, job, resp, workerVars, arrived_free, window, discards,
                   metaWrites, envVars>>

\* lines 176-202: the handler raises after the guard insert: json.dumps / write_text of
\* processing_request.json (line 185), write_metadata (line 195) or thread.start()
\* (line 202, RuntimeError: can't start new thread). Nothing catches it: the exception
\* leaves extract_job and the request is answered with an internal server error.
extract_job_raise(t) ==
    /\ pc[t] \in {"ej_config", "ej_meta", "ej_thread"}
    /\ resp' = [resp EXCEPT ![t] = "error"]
    /\ pc' = [pc EXCEPT ![t] = "done"]
    /\ UNCHANGED <<fsVars, guardVars, job, supVars, workerVars, histVars, envVars>>

\* The pipeline on a file system where the writes of the handler and the metadata
\* writes of the supervising thread may fail, and where a thread may fail to start.
NextFaults ==
    \/ Next
    \/ \E t \in Threads : write_metadata_raise(t)
    \/ \E t \in Threads : extract_job_raise(t)

SpecFaults == Init /\ [][NextFaults]_vars

\* The pipeline with its readers: job and progress reads are answered at any moment.
NextRead ==
    \/ Next
    \/ \E j \in Jobs : get_job(j)
    \/ \E j \in Jobs : get_job_progress(j)

SpecRead == Init /\ [][NextRead]_vars

\* Scheduling: a request that entered the handler runs to its response, and a started
\* supervising thread keeps running (the OS schedules every thread; the lock is held
\* for a few statements only; subprocess.run returns or raises TimeoutExpired within
\* EXTRACT_TIMEOUT seconds, so the wait for the worker ends whatever the worker does).
\* No request is ever forced to arrive and the worker is not assumed to make progress.
HandlerRun(t) ==
    \/ extract_job_lock(t)
    \/ extract_job_check(t)
    \/ extract_job_add(t)
    \/ extract_job_config(t)
    \/ extract_job_meta(t)
    \/ extract_job_thread(t)

Fairness == \A t \in Threads : WF_vars(HandlerRun(t)) /\ WF_vars(Supervisor(t))

SpecFair == Spec /\ Fairness

-----------------------------------------------------------------------------
(* core/chunker.py: strings                                                *)

\* A string is the sequence of its characters.  These are the white space characters
\* (str.isspace, \s) among the characters the inputs below are made of.
Whitespace == {" ", "\t", "\n", "\r"}

\* str.lstrip()
RECURSIVE lstrip(_)
lstrip(s) == IF s # <<>> /\ Head(s) \in Whitespace THEN lstrip(Tail(s)) ELSE s

\* str.rstrip()
RECURSIVE rstrip(_)
rstrip(s) ==
    IF s # <<>> /\ s[Len(s)] \in Whitespace THEN rstrip(SubSeq(s, 1, Len(s) - 1)) ELSE s

\* str.strip()
strip(s) == rstrip(lstrip(s))

\* sep.join(parts)
RECURSIVE join(_, _)
join(sep, parts) ==
    IF parts = <<>> THEN <<>>
    ELSE IF Len(parts) = 1 THEN parts[1]
    ELSE parts[1] \o sep \o join(sep, Tail(parts))

\* markdown.split("\n"): the pieces between the line feeds, at least one piece
RECURSIVE split_lines(_)
split_lines(s) ==
    IF \A i \in 1..Len(s) : s[i] # "\n" THEN <<s>>
    ELSE LET i == CHOOSE k \in 1..Len(s) : s[k] = "\n" /\ \A m \in 1..(k - 1) : s[m] # "\n"
         IN  <<SubSeq(s, 1, i - 1)>> \o split_lines(SubSeq(s, i + 1, Len(s)))

\* the length of the longest prefix of s made of the characters of set
RECURSIVE run_length(_, _)
run_length(s, set) ==
    IF s # <<>> /\ Head(s) \in set THEN 1 + run_length(Tail(s), set) ELSE 0

-----------------------------------------------------------------------------
(* core/chunker.py: iter_sections                                          *)

NoMatch == [level |-> 0, title |-> <<>>]

\* header_pattern.match(line) for a line without line feed, r"^(#{1,6})\s+(.+)$":
\* one to six '#' (the next character is white space, so group 1 is the whole run of
\* '#'), then white space, then at least one more character.  \s+ is greedy: group 2
\* starts after the run of white space, or is the last character of that run when the
\* run ends the line.  The result is (len(group 1), group 2 stripped).
header_pattern_match(line) ==
    LET n == run_length(line, {"#"})
        rest == SubSeq(line, n + 1, Len(line))
        w == run_length(rest, Whitespace)
    IN  IF n \in 1..6 /\ w >= 1 /\ Len(rest) >= 2
          THEN [level |-> n,
                title |-> strip(IF w < Len(rest) THEN SubSeq(rest, w + 1, Len(rest))
                                ELSE SubSeq(rest, w, Len(rest)))]
          ELSE NoMatch

\* faulty variant of flush_section: the buffer is emitted without the test for an
\* empty text
flush_section_keep_blank(current_path, current_section_lines) ==
    IF current_section_lines = <<>> THEN <<>>
    ELSE <<[path |-> join(<<" ", ">", " ">>, [i \in 1..Len(current_path) |-> current_path[i][2]]),
            text |-> strip(join(<<"\n">>, current_section_lines))]>>

\* lines 33-40, flush_section: what it returns, as a sequence of no element (None)
\* or of the one section (path_str, text)
flush_section(current_path, current_section_lines) ==
    IF current_section_lines = <<>> THEN <<>>
    ELSE LET path_str == join(<<" ", ">", " ">>,
                              [i \in 1..Len(current_path) |-> current_path[i][2]])
             text == strip(join(<<"\n">>, current_section_lines))
         IN  IF text = <<>> THEN <<>> ELSE <<[path |-> path_str, text |-> text]>>

\* faulty variant of pop_path: entries of the level of the new header stay open
RECURSIVE pop_path_above(_, _)
pop_path_above(current_path, level) ==
    IF current_path # <<>> /\ current_path[Len(current_path)][1] > level
      THEN pop_path_above(SubSeq(current_path, 1, Len(current_path) - 1), level)
      ELSE current_path

\* lines 52-53: while current_path and current_path[-1][0] >= level: current_path.pop()
RECURSIVE pop_path(_, _)
pop_path(current_path, level) ==
    IF current_path # <<>> /\ current_path[Len(current_path)][1] >= level
      THEN pop_path(SubSeq(current_path, 1, Len(current_path) - 1), level)
      ELSE current_path

\* lines 42-58: the loop body for one line, on the locals of the generator
iter_sections_body(st, line) ==
    LET m == header_pattern_match(line)
    IN  IF m # NoMatch
          THEN [st EXCEPT
                  !.yielded = @ \o flush_section(st.current_path, st.current_section_lines),
                  !.current_path = Append(pop_path(@, m.level), <<m.level, m.title>>),
                  !.current_section_lines = <<line>>]
          ELSE [st EXCEPT !.current_section_lines = Append(@, line)]

\* lines 27-31: the call; the lines of the argument, empty locals
iter_sections_begin ==
    /\ splitter.pc = "call"
    /\ splitter' = [splitter EXCEPT !.pc = "loop", !.lines = split_lines(splitter.markdown)]
    /\ UNCHANGED <<serviceVars, windower, writer, sanitizer>>

\* lines 42-58: one turn of the loop
iter_sections_line ==
    /\ splitter.pc = "loop"
    /\ splitter.lines # <<>>
    /\ splitter' = [iter_sections_body(splitter, Head(splitter.lines))
                        EXCEPT !.lines = Tail(splitter.lines)]
    /\ UNCHANGED <<serviceVars, windower, writer, sanitizer>>

\* faulty variant of iter_sections_end: the generator returns without emitting the
\* buffer left after the last line
iter_sections_end_skip ==
    /\ splitter.pc = "loop"
    /\ splitter.lines = <<>>
    /\ splitter' = [splitter EXCEPT !.pc = "done"]
    /\ UNCHANGED <<serviceVars, windower, writer, sanitizer>>

\* lines 60-62: the buffer left after the last line
iter_sections_end ==
    /\ splitter.pc = "loop"
    /\ splitter.lines = <<>>
    /\ splitter' = [splitter EXCEPT
                      !.pc = "done",
                      !.yielded = @ \o flush_section(splitter.current_path,
                                                     splitter.current_section_lines)]
    /\ UNCHANGED <<serviceVars, windower, writer, sanitizer>>

\* list(iter_sections(markdown)): the loop run over every line
RECURSIVE iter_sections_loop(_, _)
iter_sections_loop(st, lines) ==
    IF lines = <<>> THEN st
    ELSE iter_sections_loop(iter_sections_body(st, Head(lines)), Tail(lines))

iter_sections(markdown) ==
    LET st == iter_sections_loop([SplitterIdle EXCEPT !.markdown = markdown],
                                 split_lines(markdown))
    IN  st.yielded \o flush_section(st.current_path, st.current_section_lines)

\* The lines the documents are made of: blank, white space only, text, text inside
\* white space, headers of level 1 to 3, a header with only white space after the
\* marks (its title is empty), marks not followed by white space (no header).
LineSamples ==
    { <<>>,
      <<" ">>,
      <<"a">>,
      <<" ", "b", " ">>,
      <<"#", " ", "a">>,
      <<"#", "#", " ", "b">>,
      <<"#", "#", "#", "\t", "c", " ">>,
      <<"#", " ", " ">>,
      <<"#", "a">> }

\* '# Intro' followed by '## Part 2'
ExampleDoc ==
    <<"#", " ", "I", "n", "t", "r", "o", "\n",
      "#", "#", " ", "P", "a", "r", "t", " ", "2">>

\* the documents: up to MaxLines of these lines joined by line feeds, and the example
Docs ==
    {join(<<"\n">>, ls) : ls \in UNION {[1..n -> LineSamples] : n \in 1..MaxLines}}
        \cup {ExampleDoc}

\* iter_sections called on any of the documents
InitSections ==
    /\ InitService
    /\ windower = WindowerIdle
    /\ writer = WriterIdle
    /\ sanitizer = SanitizerIdle
    /\ \E markdown \in Docs :
           splitter = [SplitterIdle EXCEPT !.pc = "call", !.markdown = markdown]

NextSections ==
    \/ iter_sections_begin
    \/ iter_sections_line
    \/ iter_sections_end

SpecSections == InitSections /\ [][NextSections]_vars

-----------------------------------------------------------------------------
(* core/chunker.py: split_to_token_windows                                 *)

\* lines 16-18: approx_tokens, (len(text) + 3) // 4
approx_tokens(text) == (Len(text) + 3) \div 4

\* sum(approx_tokens(p) for p in paragraphs)
RECURSIVE sum_tokens(_)
sum_tokens(paragraphs) ==
    IF paragraphs = <<>> THEN 0
    ELSE approx_tokens(Head(paragraphs)) + sum_tokens(Tail(paragraphs))

\* line 81, re.split(r"\n\s*\n", text): the pieces between the separators, found from
\* left to right.  A separator starts at a line feed and, \s* being greedy, runs over
\* the white space that follows up to the last line feed of that white space.
RECURSIVE split_paragraphs(_)
split_paragraphs(text) ==
    LET ends(p) == {q \in (p + 1)..Len(text) :
                        /\ text[q] = "\n"
                        /\ \A m \in (p + 1)..q : text[m] \in Whitespace}
        starts == {p \in 1..Len(text) : text[p] = "\n" /\ ends(p) # {}}
    IN  IF starts = {} THEN <<text>>
        ELSE LET p == CHOOSE x \in starts : \A y \in starts : x <= y
                 q == CHOOSE x \in ends(p) : \A y \in ends(p) : x >= y
             IN  <<SubSeq(text, 1, p - 1)>> \o split_paragraphs(SubSeq(text, q + 1, Len(text)))

\* faulty variant of overlap_paragraphs: the tail is cut before the paragraph that
\* reaches overlap_tokens
RECURSIVE overlap_paragraphs_short(_, _)
overlap_paragraphs_short(current, overlap_tokens) ==
    IF current = <<>> \/ approx_tokens(current[Len(current)]) >= overlap_tokens
      THEN <<>>
      ELSE Append(overlap_paragraphs_short(SubSeq(current, 1, Len(current) - 1),
                                           overlap_tokens
                                               - approx_tokens(current[Len(current)])),
                  current[Len(current)])

\* lines 98-104: the paragraphs kept for the overlap, taken from the end of current
\* until their tokens reach overlap_tokens (the paragraph that reaches it included)
RECURSIVE overlap_paragraphs(_, _)
overlap_paragraphs(current, overlap_tokens) ==
    IF current = <<>> THEN <<>>
    ELSE IF approx_tokens(current[Len(current)]) >= overlap_tokens
      THEN <<current[Len(current)]>>
      ELSE Append(overlap_paragraphs(SubSeq(current, 1, Len(current) - 1),
                                     overlap_tokens - approx_tokens(current[Len(current)])),
                  current[Len(current)])

\* lines 94-96 and 111-113: the window of the paragraphs of current, appended unless
\* it is empty
emit_window(windows, current) ==
    LET window_text == strip(join(<<"\n", "\n">>, current))
    IN  IF window_text # <<>> THEN Append(windows, window_text) ELSE windows

\* faulty variant of split_to_token_windows_body: after a cut the paragraphs kept for
\* the overlap are tested against the target once more and, when they and the new
\* paragraph still exceed it, emitted as a window of their own
split_to_token_windows_body_recut(st, para) ==
    IF strip(para) = <<>> THEN st
    ELSE LET pt == approx_tokens(para)
         IN  IF st.current_tokens + pt > st.target_tokens /\ st.current # <<>>
               THEN LET kept == overlap_paragraphs(st.current, st.overlap_tokens)
                        again == sum_tokens(kept) + pt > st.target_tokens /\ kept # <<>>
                    IN  [st EXCEPT
                           !.windows = IF again
                                         THEN emit_window(emit_window(@, st.current), kept)
                                         ELSE emit_window(@, st.current),
                           !.cut = IF again THEN Append(Append(@, st.current), kept)
                                   ELSE Append(@, st.current),
                           !.current = Append(kept, para),
                           !.current_tokens = sum_tokens(kept) + pt]
               ELSE [st EXCEPT !.current = Append(@, para), !.current_tokens = @ + pt]

\* lines 88-108: the loop body for one paragraph, on the locals of the function; cut
\* records the pieces of every window appended, as the function measured them
split_to_token_windows_body(st, para) ==
    IF strip(para) = <<>> THEN st
    ELSE LET pt == approx_tokens(para)
         IN  IF st.current_tokens + pt > st.target_tokens /\ st.current # <<>>
               THEN LET kept == overlap_paragraphs(st.current, st.overlap_tokens)
                    IN  [st EXCEPT
                           !.windows = emit_window(@, st.current),
                           !.cut = Append(@, st.current),
                           !.current = Append(kept, para),
                           !.current_tokens = sum_tokens(kept) + pt]
               ELSE [st EXCEPT !.current = Append(@, para), !.current_tokens = @ + pt]

\* faulty variant of split_to_token_windows_rest: the paragraphs left in current when
\* the loop ends are dropped
split_to_token_windows_rest_skip(st) == st

\* lines 110-113: the window of the paragraphs left
split_to_token_windows_rest(st) ==
    IF st.current # <<>>
      THEN [st EXCEPT !.windows = emit_window(@, st.current), !.cut = Append(@, st.current)]
      ELSE st

\* lines 74-86: the call; an empty text gives no window, a text of at most
\* target_tokens gives itself, stripped and in one piece (it is not split into
\* paragraphs); any other text is split into paragraphs
split_to_token_windows_begin ==
    /\ windower.pc = "call"
    /\ windower' =
           IF strip(windower.text) = <<>>
             THEN [windower EXCEPT !.pc = "done"]
           ELSE IF approx_tokens(windower.text) <= windower.target_tokens
             THEN [windower EXCEPT !.pc = "done",
                                   !.windows = <<strip(windower.text)>>,
                                   !.cut = <<<<strip(windower.text)>>>>]
           ELSE [windower EXCEPT !.pc = "loop",
                                 !.paragraphs = split_paragraphs(windower.text)]
    /\ UNCHANGED <<serviceVars, splitter, writer, sanitizer>>

\* lines 88-108: one turn of the loop
split_to_token_windows_para ==
    /\ windower.pc = "loop"
    /\ windower.paragraphs # <<>>
    /\ windower' = [split_to_token_windows_body(windower, Head(windower.paragraphs))
                        EXCEPT !.paragraphs = Tail(windower.paragraphs)]
    /\ UNCHANGED <<serviceVars, splitter, writer, sanitizer>>

\* lines 110-114: the last window and the return
split_to_token_windows_end ==
    /\ windower.pc = "loop"
    /\ windower.paragraphs = <<>>
    /\ windower' = [split_to_token_windows_rest(windower) EXCEPT !.pc = "done"]
    /\ UNCHANGED <<serviceVars, splitter, writer, sanitizer>>

\* split_to_token_windows(text, target_tokens, overlap_tokens): the loop run over
\* every paragraph
RECURSIVE split_to_token_windows_loop(_, _)
split_to_token_windows_loop(st, paragraphs) ==
    IF paragraphs = <<>> THEN st
    ELSE split_to_token_windows_loop(split_to_token_windows_body(st, Head(paragraphs)),
                                     Tail(paragraphs))

\* faulty variant of split_to_token_windows: a text of at most target_tokens gives no
\* window
split_to_token_windows_no_short(text, target_tokens, overlap_tokens) ==
    IF strip(text) = <<>> \/ approx_tokens(text) <= target_tokens THEN <<>>
    ELSE split_to_token_windows_rest(
             split_to_token_windows_loop(
                 [WindowerIdle EXCEPT !.text = text, !.target_tokens = target_tokens,
                                      !.overlap_tokens = overlap_tokens],
                 split_paragraphs(text))).windows

split_to_token_windows(text, target_tokens, overlap_tokens) ==
    IF strip(text) = <<>> THEN <<>>
    ELSE IF approx_tokens(text) <= target_tokens THEN <<strip(text)>>
    ELSE split_to_token_windows_rest(
             split_to_token_windows_loop(
                 [WindowerIdle EXCEPT !.text = text, !.target_tokens = target_tokens,
                                      !.overlap_tokens = overlap_tokens],
                 split_paragraphs(text))).windows

\* The paragraphs the section texts are made of: one token, two tokens, one token after
\* white space, one token on two lines.
ParagraphSamples ==
    { <<"a">>,
      <<"b", "c", "d", "e", "f">>,
      <<" ", "g">>,
      <<"h", "\n", "i">> }

\* what stands between two paragraphs: a blank line, or lines of white space
SeparatorSamples == { <<"\n", "\n">>, <<"\n", " ", "\n", "\n">> }

\* the texts: up to MaxParagraphs paragraphs with one of the separators between them,
\* with or without a blank line at the end, and the empty and the blank text
Texts ==
    {join(sep, ps) \o tail :
         ps \in UNION {[1..n -> ParagraphSamples] : n \in 1..MaxParagraphs},
         sep \in SeparatorSamples,
         tail \in {<<>>, <<"\n", "\n">>}}
        \cup {<<>>, <<" ", "\n">>}

\* split_to_token_windows called on any of the texts, with a target of 1 to MaxTarget
\* tokens and an overlap of 0 to MaxTarget tokens
InitWindows ==
    /\ InitService
    /\ splitter = SplitterIdle
    /\ writer = WriterIdle
    /\ sanitizer = SanitizerIdle
    /\ \E text \in Texts, target_tokens \in 1..MaxTarget, overlap_tokens \in 0..MaxTarget :
           windower = [WindowerIdle EXCEPT !.pc = "call", !.text = text,
                                           !.target_tokens = target_tokens,
                                           !.overlap_tokens = overlap_tokens]

NextWindows ==
    \/ split_to_token_windows_begin
    \/ split_to_token_windows_para
    \/ split_to_token_windows_end

SpecWindows == InitWindows /\ [][NextWindows]_vars

\* lines 88-114: the turns of the loop and the return that follows them
LoopSteps ==
    \/ split_to_token_windows_para
    \/ split_to_token_windows_end

\* Scheduling: the function runs on the thread of its caller, takes no lock and waits
\* for nothing, so a loop that can take a turn takes it.
SpecWindowsFair == SpecWindows /\ WF_vars(LoopSteps)

-----------------------------------------------------------------------------
(* core/chunker.py: generate_chunks_jsonl                                  *)

DEFAULT_TARGET_TOKENS == 1000
DEFAULT_OVERLAP_TOKENS == 120

\* str(n) of a natural number: its decimal digits
RECURSIVE decimal(_)
decimal(n) ==
    LET digit == <<"0", "1", "2", "3", "4", "5", "6", "7", "8", "9">>
    IN  IF n < 10 THEN <<digit[n + 1]>> ELSE Append(decimal(n \div 10), digit[(n % 10) + 1])

\* lines 149-154 (and 167-172): the record of window w, the chunk_index-th chunk
chunk_record(doc_id, chunk_index, section_path, w) ==
    [id |-> doc_id \o <<"_">> \o decimal(chunk_index),
     text |-> strip(w),
     meta |-> [doc_id |-> doc_id, section |-> section_path]]

\* faulty variant of write_windows: the index is advanced for every window, also for
\* those skipped, and before the record is built
RECURSIVE write_windows_one_based(_, _, _, _)
write_windows_one_based(file, doc_id, section_path, windows) ==
    IF windows = <<>> THEN file
    ELSE write_windows_one_based(
             IF strip(Head(windows)) = <<>> THEN file
             ELSE Append(file, chunk_record(doc_id, Len(file) + 1, section_path,
                                            Head(windows))),
             doc_id, section_path, Tail(windows))

\* faulty variant of write_windows: every record gets the empty section path
RECURSIVE write_windows_no_section(_, _, _, _)
write_windows_no_section(file, doc_id, section_path, windows) ==
    IF windows = <<>> THEN file
    ELSE write_windows_no_section(
             IF strip(Head(windows)) = <<>> THEN file
             ELSE Append(file, chunk_record(doc_id, Len(file), <<>>, Head(windows))),
             doc_id, section_path, Tail(windows))

\* lines 146-156 (and 164-174): the records of the windows of one section appended to
\* the file, blank windows skipped; chunk_index is the number of records written so
\* far (it starts at 0 and is advanced with every write, and only then)
RECURSIVE write_windows(_, _, _, _)
write_windows(file, doc_id, section_path, windows) ==
    IF windows = <<>> THEN file
    ELSE write_windows(
             IF strip(Head(windows)) = <<>> THEN file
             ELSE Append(file, chunk_record(doc_id, Len(file), section_path,
                                            Head(windows))),
             doc_id, section_path, Tail(windows))

\* lines 129-137: the call; a missing document returns 0 and opens no file, otherwise
\* the markdown is read and the output file is opened (and truncated)
generate_chunks_jsonl_begin ==
    /\ writer.pc = "call"
    /\ writer' = IF ~writer.exists
                   THEN [writer EXCEPT !.pc = "done", !.returned = 0]
                   ELSE [writer EXCEPT !.pc = "sections", !.opened = TRUE, !.file = <<>>,
                                       !.sections = iter_sections(writer.markdown)]
    /\ UNCHANGED <<serviceVars, splitter, windower, sanitizer>>

\* lines 140-156: one section, its windows written
generate_chunks_jsonl_section ==
    /\ writer.pc = "sections"
    /\ writer.sections # <<>>
    /\ LET section == Head(writer.sections)
           windows == split_to_token_windows(section.text, writer.target_tokens,
                                             writer.overlap_tokens)
       IN  writer' = [writer EXCEPT
                        !.sections = Tail(@),
                        !.file = write_windows(@, writer.doc_id, section.path, windows)]
    /\ UNCHANGED <<serviceVars, splitter, windower, sanitizer>>

\* lines 158-176: with no chunk written and a document that is not blank, the whole
\* document is windowed as one section of empty path; then chunk_index is returned
generate_chunks_jsonl_end ==
    /\ writer.pc = "sections"
    /\ writer.sections = <<>>
    /\ LET file == IF Len(writer.file) = 0 /\ strip(writer.markdown) # <<>>
                     THEN write_windows(writer.file, writer.doc_id, <<>>,
                                        split_to_token_windows(writer.markdown,
                                                               writer.target_tokens,
                                                               writer.overlap_tokens))
                     ELSE writer.file
       IN  writer' = [writer EXCEPT !.pc = "done", !.file = file, !.returned = Len(file)]
    /\ UNCHANGED <<serviceVars, splitter, windower, sanitizer>>

\* the document ids and chunking parameters of the calls: small targets that cut the
\* sections into several windows, and the values the worker passes
\* (run_extract_job.py 105-109)
CallSamples ==
    { [doc_id |-> <<"d", "1">>, target_tokens |-> 1, overlap_tokens |-> 0],
      [doc_id |-> <<"j", "o", "b", "-", "1">>, target_tokens |-> 2, overlap_tokens |-> 1],
      [doc_id |-> <<"d", "1">>, target_tokens |-> DEFAULT_TARGET_TOKENS,
       overlap_tokens |-> DEFAULT_OVERLAP_TOKENS] }

\* generate_chunks_jsonl called on any of the documents, or on a path without file
InitChunks ==
    /\ InitService
    /\ splitter = SplitterIdle
    /\ windower = WindowerIdle
    /\ sanitizer = SanitizerIdle
    /\ \E call \in CallSamples :
           \/ \E markdown \in Docs :
                  writer = [WriterIdle EXCEPT !.pc = "call", !.exists = TRUE,
                                              !.markdown = markdown,
                                              !.doc_id = call.doc_id,
                                              !.target_tokens = call.target_tokens,
                                              !.overlap_tokens = call.overlap_tokens]
           \/ writer = [WriterIdle EXCEPT !.pc = "call", !.doc_id = call.doc_id,
                                          !.target_tokens = call.target_tokens,
                                          !.overlap_tokens = call.overlap_tokens]

NextChunks ==
    \/ generate_chunks_jsonl_begin
    \/ generate_chunks_jsonl_section
    \/ generate_chunks_jsonl_end

SpecChunks == InitChunks /\ [][NextChunks]_vars

-----------------------------------------------------------------------------
(* core/utils.py: sanitize_stem                                            *)

MAX_STEM_LENGTH == 80

Upper == {"A", "B", "C", "D", "E", "F", "G", "H", "I", "J", "K", "L", "M",
          "N", "O", "P", "Q", "R", "S", "T", "U", "V", "W", "X", "Y", "Z"}
Lower == {"a", "b", "c", "d", "e", "f", "g", "h", "i", "j", "k", "l", "m",
          "n", "o", "p", "q", "r", "s", "t", "u", "v", "w", "x", "y", "z"}
Digit == {"0", "1", "2", "3", "4", "5", "6", "7", "8", "9"}

\* the characters of the class [A-Za-z0-9._-]
Kept == Upper \cup Lower \cup Digit \cup {".", "_", "-"}

\* str.split(sep) for a separator of one character
RECURSIVE split_at(_, _)
split_at(s, sep) ==
    IF \A i \in 1..Len(s) : s[i] # sep THEN <<s>>
    ELSE LET i == CHOOSE k \in 1..Len(s) : s[k] = sep /\ \A m \in 1..(k - 1) : s[m] # sep
         IN  <<SubSeq(s, 1, i - 1)>> \o split_at(SubSeq(s, i + 1, Len(s)), sep)

\* Path(filename).name: the last component of the path, empty and '.' components
\* dropped; empty if there is none
path_name(filename) ==
    LET parts == SelectSeq(split_at(filename, "/"), LAMBDA c : c # <<>> /\ c # <<".">>)
    IN  IF parts = <<>> THEN <<>> ELSE parts[Len(parts)]

\* Path(filename).stem: the name without its last suffix; a dot that starts or ends
\* the name starts no suffix
path_stem(filename) ==
    LET name == path_name(filename)
        dots == {i \in 1..Len(name) : name[i] = "."}
        last == CHOOSE i \in dots : \A j \in dots : j <= i
    IN  IF dots # {} /\ 1 < last /\ last < Len(name)
          THEN SubSeq(name, 1, last - 1)
          ELSE name

\* re.sub(r"_+", "_", s): every run of underscores becomes one underscore
collapse_underscores(s) ==
    LET first == SelectSeq([i \in 1..Len(s) |-> i],
                           LAMBDA i : ~(s[i] = "_" /\ i > 1 /\ s[i - 1] = "_"))
    IN  [k \in 1..Len(first) |-> s[first[k]]]

\* str.strip("_")
RECURSIVE strip_underscores(_)
strip_underscores(s) ==
    IF s # <<>> /\ Head(s) = "_" THEN strip_underscores(Tail(s))
    ELSE IF s # <<>> /\ s[Len(s)] = "_" THEN strip_underscores(SubSeq(s, 1, Len(s) - 1))
    ELSE s

Document == <<"d", "o", "c", "u", "m", "e", "n", "t">>

\* faulty variant of sanitize_stem: the runs of underscores are collapsed before the
\* other characters are replaced by underscores
sanitize_stem_collapse_first(filename) ==
    LET stem == strip(path_stem(filename))
        spaced == collapse_underscores([i \in 1..Len(stem) |->
                                            IF stem[i] = " " THEN "_" ELSE stem[i]])
        s == strip_underscores([i \in 1..Len(spaced) |->
                                    IF spaced[i] \in Kept THEN spaced[i] ELSE "_"])
    IN  IF stem = <<>> \/ stem[1] = "." THEN Document
        ELSE IF s = <<>> \/ \A i \in 1..Len(s) : s[i] \notin Upper \cup Lower \cup Digit
          THEN Document
        ELSE SubSeq(s, 1, IF Len(s) < MAX_STEM_LENGTH THEN Len(s) ELSE MAX_STEM_LENGTH)

\* lines 19-30: sanitize_stem
sanitize_stem(filename) ==
    LET stem == strip(path_stem(filename))
        spaced == [i \in 1..Len(stem) |-> IF stem[i] = " " THEN "_" ELSE stem[i]]
        kept == [i \in 1..Len(spaced) |-> IF spaced[i] \in Kept THEN spaced[i] ELSE "_"]
        s == strip_underscores(collapse_underscores(kept))
    IN  IF stem = <<>> \/ stem[1] = "." THEN Document
        ELSE IF s = <<>> \/ \A i \in 1..Len(s) : s[i] \notin Upper \cup Lower \cup Digit
          THEN Document
        ELSE SubSeq(s, 1, IF Len(s) < MAX_STEM_LENGTH THEN Len(s) ELSE MAX_STEM_LENGTH)

\* the call of sanitize_stem
sanitize_stem_call ==
    /\ sanitizer.pc = "call"
    /\ sanitizer' = [sanitizer EXCEPT !.pc = "done",
                                      !.prefix = sanitize_stem(sanitizer.filename)]
    /\ UNCHANGED <<serviceVars, splitter, windower, writer>>

\* The characters the short filenames are made of: a letter, a digit, the three kept
\* punctuation marks, a blank, a tab, a character outside the kept class, the path
\* separator.
NameChars == {"a", "1", ".", "_", "-", " ", "\t", "@", "/"}

\* the character c repeated n times
Repeat(c, n) == [i \in 1..n |-> c]

\* 'Hydraulics Manual v3.pdf'
ExampleName ==
    <<"H", "y", "d", "r", "a", "u", "l", "i", "c", "s", " ", "M", "a", "n", "u", "a", "l",
      " ", "v", "3", ".", "p", "d", "f">>

\* the filenames: every string of up to MaxNameLen of these characters, the example,
\* and names whose stem is around MAX_STEM_LENGTH characters long
Filenames ==
    UNION {[1..n -> NameChars] : n \in 0..MaxNameLen}
        \cup {ExampleName}
        \cup {Repeat("a", n) \o tail :
                  n \in (MAX_STEM_LENGTH - 2)..(MAX_STEM_LENGTH + 1),
                  tail \in {<<>>, <<" ", "b">>, <<"@", "@", "b">>, <<".", "p", "d", "f">>}}

\* sanitize_stem called on any of the filenames
InitStem ==
    /\ InitService
    /\ splitter = SplitterIdle
    /\ windower = WindowerIdle
    /\ writer = WriterIdle
    /\ \E filename \in Filenames :
           sanitizer = [SanitizerIdle EXCEPT !.pc = "call", !.filename = filename]

NextStem == sanitize_stem_call

SpecStem == InitStem /\ [][NextStem]_vars

-----------------------------------------------------------------------------
(* Positions                                                               *)

\* the handler holds an accepted request: past the guard test, thread not yet started
HandlerAccepted == {"ej_add", "ej_config", "ej_meta", "ej_thread"}

\* the positions of _run_extraction_background
SupervisorPcs == {"bg_spawn", "bg_wait", "bg_fb_md", "bg_fb_json", "bg_fb_exists",
                  "bg_fb_meta", "bg_read", "bg_scan", "bg_finalize", "bg_lock",
                  "bg_discard"}

\* thread t carries an accepted attempt that has not released the guard yet
InAttempt(t) == pc[t] \in HandlerAccepted \cup SupervisorPcs

\* a worker process of thread t exists (running, or ended and not yet reaped)
WorkerInFlight(t) == wpc[t] # "none"

\* the requests for job j that tested the guard since j was last released
Window(j) == {t \in Threads : job[t] = j /\ window[t]}

-----------------------------------------------------------------------------
(* Claims                                                                  *)

\* C1: requests for one job that test the guard with no release of that job in
\* between (in particular two requests that both arrived while the job was not in
\* flight) are deduplicated, whatever the interleaving of their handlers: exactly one
\* of them is accepted and carries the attempt, at most one worker process exists for
\* them, and every other one has the response "already in progress".
C1_Dedup ==
    \A j \in Jobs :
        Window(j) # {} =>
            /\ Cardinality({t \in Window(j) : InAttempt(t)}) = 1
            /\ Cardinality({t \in Window(j) : WorkerInFlight(t)}) <= 1
            /\ \A t \in Window(j) : ~InAttempt(t) => resp[t] = "already" /\ wpc[t] = "none"

\* C1 witness: two requests for the same job, both arrived while the job was not in
\* flight; one started the worker, the other was answered "already in progress".
C1_Witness ==
    \E t1, t2 \in Threads :
        /\ t1 # t2 /\ job[t1] = job[t2]
        /\ arrived_free[t1] /\ arrived_free[t2]
        /\ window[t1] /\ window[t2]
        /\ resp[t1] = "started" /\ worker_running(t1)
        /\ resp[t2] = "already" /\ pc[t2] = "done"

\* C2: at most one worker process and at most one supervising task (and at most one
\* accepted attempt) is in flight for any job id.
C2_OneAttemptPerJob ==
    \A j \in Jobs :
        /\ Cardinality({t \in Threads : job[t] = j /\ WorkerInFlight(t)}) <= 1
        /\ Cardinality({t \in Threads : job[t] = j /\ pc[t] \in SupervisorPcs}) <= 1
        /\ Cardinality({t \in Threads : job[t] = j /\ InAttempt(t)}) <= 1

\* C2 witness: the workers of two different jobs run at the same time.
C2_Witness ==
    \E t1, t2 \in Threads :
        /\ job[t1] # job[t2]
        /\ worker_running(t1) /\ worker_running(t2)

C4_NotExtractingAtEnd ==
    [][\A t \in Threads :
          (pc[t] = "bg_discard" /\ pc'[t] = "done") =>
              meta'[job[t]].status # "extracting"]_vars

\* C5: a supervising task whose worker ended with a non-zero exit status has run the
\* fallback extractor by the time it has finalized.
C5_FallbackOnNonZeroExit ==
    \A t \in Threads :
        (pc[t] \in {"bg_lock", "bg_discard"} /\ exit_code[t] = "exit_nonzero") =>
            fbRuns[t] >= 1

\* C6: when the wait for the worker timed out or raised, the supervising task runs the
\* fallback extractor exactly once and then writes: status completed with the stats
\* fallback = true and num_chunks = 0 if the fallback produced the document, else
\* status failed with the primary failure as error ('Extraction timed out' for a
\* timeout).
C6_FallbackRecord ==
    /\ [](\A t \in Threads :
            (pc[t] \in {"bg_lock", "bg_discard"} /\ exit_code[t] \in {"timeout", "exception"})
                => fbRuns[t] = 1)
    /\ [][\A t \in Threads :
            (pc[t] = "bg_fb_meta" /\ pc'[t] # "bg_fb_meta") =>
                /\ exit_code[t] \in {"timeout", "exception"}
                /\ fbRuns[t] = 1
                /\ fallback[t] = "ok" =>
                       meta'[job[t]] = [status |-> "completed",
                                        stats |-> [fallback |-> TRUE, num_chunks |-> 0],
                                        error |-> "none"]
                /\ fallback[t] # "ok" =>
                       /\ meta'[job[t]].status = "failed"
                       /\ exit_code[t] = "timeout" =>
                              meta'[job[t]].error = "Extraction timed out"
                       /\ exit_code[t] = "exception" => meta'[job[t]].error = "str(e)"]_vars

\* C6 witness: the worker timed out, the fallback ran once and produced nothing, and
\* the stored record is failed with 'Extraction timed out'.
C6_Witness ==
    \E t \in Threads :
        /\ pc[t] = "bg_lock" /\ exit_code[t] = "timeout"
        /\ fbRuns[t] = 1 /\ fallback[t] = "failed"
        /\ meta[job[t]].status = "failed"
        /\ meta[job[t]].error = "Extraction timed out"

\* C7: the terminal record is written before the guard is released: once an accepted
\* attempt is over and its job is absent from the guard, the stored status of the job
\* is not 'extracting'.
C7_TerminalBeforeRelease ==
    \A t \in Threads :
        (pc[t] = "done" /\ resp[t] = "started" /\ job[t] \notin extracting) =>
            meta[job[t]].status # "extracting"

\* C8: after a worker that ended with exit status 0, a supervising task that found no
\* document file does not leave the job completed: stored metadata alone is not
\* accepted as evidence of success.
C8_CompletedNeedsDocument ==
    [][\A t \in Threads :
          (pc[t] = "bg_finalize" /\ pc'[t] # "bg_finalize"
               /\ exit_code[t] = "exit_zero" /\ ~has_doc[t]) =>
              meta'[job[t]].status # "completed"]_vars

\* C9: a supervising task whose worker ended with exit status 0, that found no
\* document file and no readable metadata, writes status failed with the diagnostic
\* error message.
C9_FailedWithoutOutput ==
    [][\A t \in Threads :
          (pc[t] = "bg_finalize" /\ pc'[t] # "bg_finalize"
               /\ exit_code[t] = "exit_zero" /\ ~has_doc[t] /\ written[t] = NoMeta) =>
              meta'[job[t]] =
                  [status |-> "failed", stats |-> EmptyStats,
                   error |-> "Extraction failed. Check docker logs Docling for details."]]_vars

\* C9 witness: the worker ended with exit status 0, the supervising task found neither
\* document nor metadata, and the stored record is failed with the diagnostic.
C9_Witness ==
    \E t \in Threads :
        /\ pc[t] = "bg_lock" /\ exit_code[t] = "exit_zero"
        /\ ~has_doc[t] /\ written[t] = NoMeta
        /\ meta[job[t]].status = "failed"
        /\ meta[job[t]].error = "Extraction failed. Check docker logs Docling for details."

\* the worker is converting or chunking: run_docling and chunk_document not both over
WorkerConvertingOrChunking ==
    {"w_docling", "w_import", "w_build", "w_convert", "w_document", "w_export", "w_md",
     "w_json", "w_ph_md", "w_ph_json", "w_progress90", "w_chunk"}

\* C10: no terminal status is stored for a job while the worker of its attempt is
\* still converting or chunking; a status changes to completed or failed only in a
\* step that follows the conversion (or the fallback) and the chunking of the attempt.
C10_TerminalAfterWork ==
    /\ [](\A t \in Threads :
            wpc[t] \in WorkerConvertingOrChunking => meta[job[t]].status \notin Terminal)
    /\ [][\A j \in Jobs :
            (meta[j].status \notin Terminal /\ meta'[j].status \in Terminal) =>
                \E t \in Threads :
                    /\ job[t] = j
                    /\ \/ wpc[t] \in {"w_except", "w_meta"}
                       \/ pc[t] \in {"bg_fb_meta", "bg_finalize"}]_vars

\* C10 witness: a second attempt for a job whose first attempt ended in a terminal
\* status is chunking, and the stored status is 'extracting'.
C10_Witness ==
    \E t1, t2 \in Threads :
        /\ t1 # t2 /\ job[t1] = job[t2]
        /\ pc[t1] = "done" /\ resp[t1] = "started"
        /\ wpc[t2] = "w_chunk"
        /\ meta[job[t2]].status = "extracting"

\* C11: a failure of the chunking engine is not fatal to the worker: it goes on along
\* the main path with num_chunks = 0, its next steps write the manifest (num_chunks 0)
\* and the completed record (stats num_chunks 0), and the step that reports percent
\* 100 ends the process with exit status 0.
C11_ChunkFailureNotFatal ==
    /\ [](\A t \in Threads :
            wChunkFailed[t] =>
                /\ wpc[t] \in {"w_manifest", "w_meta", "w_progress100"}
                /\ wNumChunks[t] = 0)
    /\ [][\A t \in Threads :
            wChunkFailed[t] =>
                /\ (wpc[t] = "w_manifest" /\ wpc'[t] = "w_meta") => manifest'[job[t]] = 0
                /\ (wpc[t] = "w_meta" /\ wpc'[t] = "w_progress100") =>
                       /\ meta'[job[t]].status = "completed"
                       /\ meta'[job[t]].stats.num_chunks = 0
                /\ (wpc[t] = "w_progress100" /\ wpc'[t] # wpc[t] /\ progress' # progress) =>
                       wpc'[t] = "exit_zero"]_vars

\* C11 witness: chunking failed, and the worker has written the manifest and the
\* completed record with num_chunks 0 and is about to report completion.
C11_Witness ==
    \E t \in Threads :
        /\ wChunkFailed[t] /\ wpc[t] = "w_progress100"
        /\ manifest[job[t]] = 0
        /\ meta[job[t]].status = "completed"
        /\ meta[job[t]].stats.num_chunks = 0

\* the changes of a stored status the lifecycle allows
AllowedStatusChange ==
    {<<"none", "extracting">>, <<"extracting", "completed">>, <<"extracting", "failed">>,
     <<"completed", "extracting">>, <<"failed", "extracting">>}

\* C12: the stored status of a job changes only from no record to extracting, from
\* extracting to completed or failed, and from completed or failed to extracting (a
\* retry); in particular never between completed and failed; and 'uploaded' is never
\* a stored status.
C12_StatusTransitions ==
    /\ [](\A j \in Jobs : meta[j].status # "uploaded")
    /\ [][\A j \in Jobs :
            meta'[j].status # meta[j].status =>
                <<meta[j].status, meta'[j].status>> \in AllowedStatusChange]_vars

\* C13: an accepted attempt that is over has written the metadata record exactly once
\* with status 'extracting' and, worker and supervising task together, exactly once
\* with a terminal status.
C13_WritesPerAttempt ==
    \A t \in Threads :
        (pc[t] = "done" /\ resp[t] = "started") =>
            /\ metaWrites[t].extracting = 1
            /\ metaWrites[t].terminal = 1

\* C14: a request answered without starting an attempt ('not found' without an
\* uploaded file, 'already in progress' with its job in the guard) has started no
\* worker and written no metadata, and no step of its handler changes the guard, the
\* stored metadata records, the persisted processing configurations, the progress
\* snapshots or the worker processes.
C14_RejectedRequestFrame ==
    /\ [](\A t \in Threads :
            resp[t] \in {"not_found", "already"} =>
                /\ pc[t] = "done"
                /\ wpc[t] = "none"
                /\ metaWrites[t] = [extracting |-> 0, terminal |-> 0]
                /\ discards[t] = 0)
    /\ [][\A t \in Threads :
            (pc[t] \in {"idle", "ej_lock", "ej_check"} /\ pc'[t] # pc[t]
                 /\ pc'[t] # "ej_add") =>
                /\ extracting' = extracting
                /\ meta' = meta
                /\ config' = config
                /\ progress' = progress
                /\ wpc' = wpc]_vars

\* C14 witness: while an attempt for a job is in flight, with its configuration, its
\* metadata record and a progress snapshot stored, a second request for the job was
\* answered 'already in progress'.
C14_Witness ==
    \E t1, t2 \in Threads :
        /\ t1 # t2 /\ job[t1] = job[t2]
        /\ resp[t2] = "already" /\ pc[t2] = "done"
        /\ worker_running(t1) /\ job[t1] \in extracting
        /\ config[job[t1]] = t1
        /\ meta[job[t1]].status = "extracting"
        /\ progress[job[t1]] # -1

\* C15: a metadata write that raises does not end the supervising task abnormally:
\* every supervising task that is over ran to its end and removed its job id from the
\* guard.
C15_SupervisorSurvivesWriteFailure ==
    \A t \in Threads :
        (resp[t] = "started" /\ pc[t] \in {"done", "bg_raised"}) =>
            /\ pc[t] = "done"
            /\ discards[t] = 1

\* C16: a job read answers status completed whenever a converted document is on disk
\* and the stored status is absent or not terminal, and no job read and no progress
\* read changes a stored metadata record (nor any other file).
C16_ReadReconciles ==
    [][nReads' # nReads =>
          /\ meta' = meta
          /\ fsVars' = fsVars
          /\ (reply'.op = "get_job"
                  /\ (docMd[reply'.job] \/ docJson[reply'.job])
                  /\ meta[reply'.job].status \notin {"completed", "failed"}) =>
                 /\ reply'.code = 200
                 /\ reply'.metadata.status = "completed"]_vars

\* C16 witness: a job read answered completed while the stored status is 'extracting'
\* and the worker, which has written the document, is still running.
C16_Witness ==
    /\ reply.op = "get_job" /\ reply.code = 200
    /\ reply.metadata.status = "completed"
    /\ meta[reply.job].status = "extracting"
    /\ docMd[reply.job]
    /\ \E t \in Threads : job[t] = reply.job /\ wpc[t] = "w_ph_json"

\* C17: a job read answers 'job not found' exactly when the job has no metadata
\* record, no artifact in its output directory and no uploaded source file; a job
\* with an uploaded file and nothing else reads as status 'uploaded'.
C17_NotFoundIffNothingStored ==
    [][(nReads' # nReads /\ reply'.op = "get_job") =>
          LET j == reply'.job
              nothing_stored ==
                  /\ meta[j] = NoMeta
                  /\ ~docMd[j] /\ ~docJson[j] /\ chunksFile[j] = -1 /\ manifest[j] = -1
          IN  /\ reply'.code = 404 <=> (nothing_stored /\ j \notin uploads)
              /\ (nothing_stored /\ j \in uploads) =>
                     reply'.code = 200 /\ reply'.metadata.status = "uploaded"]_vars

\* C17 witness: a job that was uploaded and extracted reads as 'job not found' once
\* storage was cleaned.
C17_Witness ==
    /\ reply.op = "get_job" /\ reply.code = 404
    /\ reply.job \in created
    /\ \E t \in Threads : job[t] = reply.job /\ resp[t] = "started"

\* C18: a job read that answers status 'extracting' returns an empty artifact list;
\* artifacts are listed only with another status.  (The record inside the response is
\* then the stored 'extracting' record, which extract_job writes with artifacts=[].)
C18_NoArtifactsWhileExtracting ==
    [][(nReads' # nReads /\ reply'.op = "get_job" /\ reply'.code = 200) =>
          /\ reply'.metadata.status = "extracting" => reply'.artifacts = {}
          /\ reply'.artifacts # {} => reply'.metadata.status # "extracting"]_vars

\* C18 witness: a job read answered 'extracting' with no artifact while the output
\* directory holds files.
C18_Witness ==
    /\ reply.op = "get_job" /\ reply.code = 200
    /\ reply.metadata.status = "extracting"
    /\ reply.artifacts = {}
    /\ list_artifacts(reply.job) # {}
    /\ meta[reply.job].status = "extracting"

\* C20: a progress read for a job without a progress snapshot answers the default
\* {stage: 'pending', percent: 0}, not an error.
C20_DefaultProgress ==
    [][(nReads' # nReads /\ reply'.op = "get_job_progress"
            /\ progress[reply'.job] = -1) =>
          reply' = [op |-> "get_job_progress", job |-> reply'.job,
                    stage |-> "pending", percent |-> 0]]_vars

\* C20 witness: the progress read of a job answered the default after the snapshot
\* its worker had written was removed by a storage clean.
C20_Witness ==
    /\ reply.op = "get_job_progress"
    /\ reply.stage = "pending" /\ reply.percent = 0
    /\ progress[reply.job] = -1
    /\ nCleans > 0
    /\ \E t \in Threads : job[t] = reply.job /\ wpc[t] = "w_docling"

\* C19: every percent a worker writes to the progress snapshot of its job lies in
\* 0..100; the first write of an attempt stores the start checkpoint 5, whatever an
\* earlier attempt left there, and every later write of the attempt stores a percent
\* not below the one the snapshot holds, on every path through the worker.
C19_ProgressMonotone ==
    [][\A t \in Threads :
          (worker_running(t) /\ wpc'[t] # wpc[t]
               /\ progress'[job[t]] # progress[job[t]]) =>
              /\ progress'[job[t]] \in 0..100
              /\ IF wpc[t] = "w_progress5"
                   THEN progress'[job[t]] = 5
                   ELSE progress'[job[t]] >= progress[job[t]]]_vars

\* C19 witness: the worker of a retry, on the engine path, has reported 75 after the
\* attempt before it ended.
C19_Witness ==
    \E t1, t2 \in Threads :
        /\ t1 # t2 /\ job[t1] = job[t2]
        /\ pc[t1] = "done" /\ resp[t1] = "started"
        /\ wpc[t2] = "w_export"
        /\ progress[job[t2]] = 75

\* C30: a job read answered while the worker of the job is running, the job is in the
\* concurrency guard and its stored record is the 'extracting' record of the attempt
\* reports status 'extracting' with an empty artifact list, whatever the worker has
\* written so far and whatever an earlier attempt left in the output directory.
C30_ExtractingWhileInFlight ==
    [][(nReads' # nReads /\ reply'.op = "get_job" /\ reply'.job \in extracting
            /\ meta[reply'.job].status = "extracting"
            /\ \E t \in Threads : job[t] = reply'.job /\ worker_running(t)) =>
          /\ reply'.code = 200
          /\ reply'.metadata.status = "extracting"
          /\ reply'.artifacts = {}]_vars

\* the non-blank lines of a text, in order, each without its surrounding white space
ContentLines(text) ==
    LET lines == split_lines(text)
        kept == SelectSeq(lines, LAMBDA l : strip(l) # <<>>)
    IN  [i \in 1..Len(kept) |-> strip(kept[i])]

\* the content lines of the texts of a sequence of sections, one section after another
RECURSIVE SectionsContent(_)
SectionsContent(sections) ==
    IF sections = <<>> THEN <<>>
    ELSE ContentLines(sections[1].text) \o SectionsContent(Tail(sections))

\* part occurs in whole as a run of consecutive characters
Occurs(part, whole) ==
    \E i \in 0..(Len(whole) - Len(part)) : SubSeq(whole, i + 1, i + Len(part)) = part

\* C21: when iter_sections has returned, the non-blank lines of the document are, in
\* input order and each exactly once, the non-blank lines of the emitted section texts
\* taken in order (lines compared without surrounding white space, which the splitter
\* strips at the two ends of a section), every section text is a piece of the document,
\* no emitted text is empty or white space only, and a document that is empty or white
\* space only yields no section.
C21_SectionsCoverDocument ==
    splitter.pc = "done" =>
        /\ SectionsContent(splitter.yielded) = ContentLines(splitter.markdown)
        /\ \A i \in 1..Len(splitter.yielded) :
               /\ strip(splitter.yielded[i].text) # <<>>
               /\ Occurs(splitter.yielded[i].text, splitter.markdown)
        /\ strip(splitter.markdown) = <<>> => splitter.yielded = <<>>

\* C21 witness: a document of four lines that starts with a blank line, then has text
\* and two headers, was split: the text before the first header and each header make
\* a section.
C21_Witness ==
    /\ splitter.pc = "done"
    /\ Len(split_lines(splitter.markdown)) = 4
    /\ Head(split_lines(splitter.markdown)) = <<>>
    /\ Len(splitter.yielded) = 3
    /\ splitter.yielded[1].path = <<>>

\* the elements of a finite set of integers in increasing order
RECURSIVE Ascending(_)
Ascending(S) ==
    IF S = {} THEN <<>>
    ELSE LET least == CHOOSE x \in S : \A y \in S : x <= y
         IN  <<least>> \o Ascending(S \ {least})

\* The path a header line opens, read off the document: the titles of the headers
\* still open at line i (those no later header up to i closed, a header closing every
\* earlier one of its level or deeper), outermost first, joined with ' > '.
HeaderPath(lines, i) ==
    LET headers == {j \in 1..i : header_pattern_match(lines[j]) # NoMatch}
        level(j) == header_pattern_match(lines[j]).level
        open == {j \in headers : \A k \in headers : j < k => level(k) > level(j)}
        order == Ascending(open)
    IN  join(<<" ", ">", " ">>,
             [n \in 1..Len(order) |-> header_pattern_match(lines[order[n]]).title])

\* the paths of the sections of a document, read off the document: the empty path
\* for text before the first header, then the path of every header line
DocumentPaths(markdown) ==
    LET lines == split_lines(markdown)
        headers == {j \in 1..Len(lines) : header_pattern_match(lines[j]) # NoMatch}
        order == Ascending(headers)
        preface == \E i \in 1..Len(lines) :
                       /\ strip(lines[i]) # <<>>
                       /\ \A j \in headers : i < j
    IN  (IF preface THEN <<<<>>>> ELSE <<>>)
            \o [n \in 1..Len(order) |-> HeaderPath(lines, order[n])]

\* C22: the header stack of iter_sections has strictly increasing levels from
\* outermost to innermost; a header line of level L removes every entry of level >= L,
\* keeps every entry of level < L and pushes its own (level, title); and the sections
\* emitted have, in order, the paths of the headers that open them: the kept titles
\* followed by the own title, joined with ' > '.
C22_HeaderStack ==
    /\ [](\A i, j \in 1..Len(splitter.current_path) :
              i < j => splitter.current_path[i][1] < splitter.current_path[j][1])
    /\ [][(splitter.pc = "loop" /\ splitter'.pc = "loop"
               /\ header_pattern_match(Head(splitter.lines)) # NoMatch) =>
              LET m == header_pattern_match(Head(splitter.lines))
              IN  splitter'.current_path =
                      SelectSeq(splitter.current_path, LAMBDA e : e[1] < m.level)
                          \o <<(<<m.level, m.title>>)>>]_vars
    /\ [](splitter.pc = "done" =>
              [i \in 1..Len(splitter.yielded) |-> splitter.yielded[i].path]
                  = DocumentPaths(splitter.markdown))

\* C22 witness: '# Intro' followed by '## Part 2' was split into the sections of paths
\* 'Intro' and 'Intro > Part 2'.
C22_Witness ==
    /\ splitter.pc = "done"
    /\ splitter.markdown = ExampleDoc
    /\ Len(splitter.yielded) = 2
    /\ splitter.yielded[1].path = <<"I", "n", "t", "r", "o">>
    /\ splitter.yielded[2].path =
           <<"I", "n", "t", "r", "o", " ", ">", " ", "P", "a", "r", "t", " ", "2">>

\* no line of the document is a header line
NoHeaderLine(markdown) ==
    \A i \in 1..Len(split_lines(markdown)) :
        header_pattern_match(split_lines(markdown)[i]) = NoMatch

\* C23 as stated: a document that contains no header line yields exactly one section,
\* with the empty path, whose text is the whole document (up to the white space around
\* it).
C23_NoHeaderOneSection ==
    (splitter.pc = "done" /\ NoHeaderLine(splitter.markdown)) =>
        /\ Len(splitter.yielded) = 1
        /\ splitter.yielded[1].path = <<>>
        /\ splitter.yielded[1].text = strip(splitter.markdown)

\* C23 amended: a document that contains no header line and at least one character
\* that is not white space yields exactly one section, with the empty path, whose text
\* is the whole document without its leading and trailing white space; a document
\* that is empty or white space only yields no section.
C23_NoHeaderOneSectionIfNotBlank ==
    (splitter.pc = "done" /\ NoHeaderLine(splitter.markdown)) =>
        IF strip(splitter.markdown) = <<>>
          THEN splitter.yielded = <<>>
          ELSE /\ Len(splitter.yielded) = 1
               /\ splitter.yielded[1].path = <<>>
               /\ splitter.yielded[1].text = strip(splitter.markdown)

\* C23 witness: a document of several lines without header, with text between blank
\* lines, was split into its one section.
C23_Witness ==
    /\ splitter.pc = "done"
    /\ NoHeaderLine(splitter.markdown)
    /\ Len(split_lines(splitter.markdown)) = 4
    /\ Len(ContentLines(splitter.markdown)) = 2
    /\ Len(splitter.yielded) = 1
    /\ splitter.yielded[1].text # splitter.markdown

\* C24: with target_tokens >= 1 and overlap_tokens < target_tokens, the paragraphs of
\* every window the windower appends have token estimates that sum to at most
\* target_tokens, unless the window is one single paragraph that alone exceeds
\* target_tokens.
C24_WindowWithinTarget ==
    (windower.target_tokens >= 1 /\ windower.overlap_tokens < windower.target_tokens) =>
        \A k \in 1..Len(windower.cut) :
            \/ sum_tokens(windower.cut[k]) <= windower.target_tokens
            \/ /\ Len(windower.cut[k]) = 1
               /\ approx_tokens(windower.cut[k][1]) > windower.target_tokens

\* the last n elements of a sequence
LastN(seq, n) == SubSeq(seq, Len(seq) - n + 1, Len(seq))

\* the shortest non-empty suffix of the paragraphs of a window whose token estimates
\* sum to at least overlap_tokens; all of them if no suffix reaches it
ShortestSuffix(paragraphs, overlap_tokens) ==
    LET reaching == {n \in 1..Len(paragraphs) :
                         sum_tokens(LastN(paragraphs, n)) >= overlap_tokens}
    IN  IF reaching = {} THEN paragraphs
        ELSE LastN(paragraphs, CHOOSE n \in reaching : \A m \in reaching : n <= m)

\* C25: every window the windower appends after the first begins with the shortest
\* non-empty suffix of the paragraphs of the window before it whose token estimates
\* sum to at least overlap_tokens (with all of them if no suffix reaches it), in their
\* original order, and so shares at least one paragraph with the tail of the window
\* before it; its text begins with the text of these paragraphs.
C25_OverlapSuffix ==
    /\ Len(windower.windows) = Len(windower.cut)
    /\ \A k \in 2..Len(windower.cut) :
           LET shared == ShortestSuffix(windower.cut[k - 1], windower.overlap_tokens)
               shared_text == lstrip(join(<<"\n", "\n">>, shared))
           IN  /\ Len(shared) >= 1
               /\ Len(windower.cut[k]) >= Len(shared)
               /\ SubSeq(windower.cut[k], 1, Len(shared)) = shared
               /\ Len(windower.windows[k]) >= Len(shared_text)
               /\ SubSeq(windower.windows[k], 1, Len(shared_text)) = shared_text

\* C25 witness: a second window was appended that begins with the last two of the
\* three paragraphs of the first window, the two needed to reach overlap_tokens.
C25_Witness ==
    /\ windower.pc = "done"
    /\ Len(windower.cut) = 2
    /\ Len(windower.cut[1]) = 3
    /\ windower.overlap_tokens = 2
    /\ Len(ShortestSuffix(windower.cut[1], windower.overlap_tokens)) = 2
    /\ SubSeq(windower.cut[2], 1, 2) = LastN(windower.cut[1], 2)

\* C26: when generate_chunks_jsonl returns for a document that has at least one
\* character that is not white space, it has written at least one chunk, also when
\* every line with text is a header line; for an empty or white space only document
\* it has written none and returns 0.
C26_NonBlankDocumentYieldsChunk ==
    (writer.pc = "done" /\ writer.exists) =>
        IF strip(writer.markdown) # <<>>
          THEN Len(writer.file) >= 1 /\ writer.returned >= 1
          ELSE writer.file = <<>> /\ writer.returned = 0

\* C26 witness: a document whose only lines with text are two header lines was
\* chunked into at least one chunk.
C26_Witness ==
    /\ writer.pc = "done" /\ writer.exists
    /\ LET lines == split_lines(writer.markdown)
       IN  /\ \A i \in 1..Len(lines) :
                  strip(lines[i]) # <<>> => header_pattern_match(lines[i]) # NoMatch
           /\ Cardinality({i \in 1..Len(lines) : strip(lines[i]) # <<>>}) = 2
    /\ writer.returned >= 1

RECURSIVE SectionWindows(_, _, _)
SectionWindows(sections, target_tokens, overlap_tokens) ==
    IF sections = <<>> THEN <<>>
    ELSE LET windows == split_to_token_windows(sections[1].text, target_tokens,
                                               overlap_tokens)
         IN  [k \in 1..Len(windows) |-> <<sections[1].path, windows[k]>>]
                 \o SectionWindows(Tail(sections), target_tokens, overlap_tokens)

\* C28: the records generate_chunks_jsonl has written are, in order, the windows of
\* the first section, then those of the second, and so on, each with the header path
\* of its section as meta.section; for a document without header line every record
\* has the empty meta.section.
C28_ChunksInDocumentOrder ==
    (writer.pc = "done" /\ writer.exists) =>
        /\ [i \in 1..Len(writer.file) |->
               <<writer.file[i].meta.section, writer.file[i].text>>]
             = SectionWindows(iter_sections(writer.markdown), writer.target_tokens,
                              writer.overlap_tokens)
        /\ \A i \in 1..Len(writer.file) :
               \E k \in 1..Len(DocumentPaths(writer.markdown)) :
                   writer.file[i].meta.section = DocumentPaths(writer.markdown)[k]
        /\ NoHeaderLine(writer.markdown) =>
               \A i \in 1..Len(writer.file) : writer.file[i].meta.section = <<>>

\* C28 witness: a document of two sections, the second one level below the first, was
\* chunked into two windows of the first section followed by windows of the second.
C28_Witness ==
    /\ writer.pc = "done"
    /\ Len(iter_sections(writer.markdown)) = 2
    /\ Len(writer.file) >= 3
    /\ writer.file[1].meta.section = <<"a">>
    /\ writer.file[2].meta.section = <<"a">>
    /\ writer.file[3].meta.section = <<"a", " ", ">", " ", "b">>

\* C29: the prefix sanitize_stem derives from a filename is not empty, is at most 80
\* characters long, is made of characters of [A-Za-z0-9._-] only and has no two
\* underscores in a row; it is 'document' whenever the stem of the filename is empty
\* or has no letter and no digit; 'Hydraulics Manual v3.pdf' gives
\* 'Hydraulics_Manual_v3'.
C29_PrefixWellFormed ==
    sanitizer.pc = "done" =>
        LET prefix == sanitizer.prefix
            stem == strip(path_stem(sanitizer.filename))
        IN  /\ prefix # <<>>
            /\ Len(prefix) <= 80
            /\ \A i \in 1..Len(prefix) : prefix[i] \in Kept
            /\ \A i \in 1..(Len(prefix) - 1) : ~(prefix[i] = "_" /\ prefix[i + 1] = "_")
            /\ (\A i \in 1..Len(stem) : stem[i] \notin Upper \cup Lower \cup Digit) =>
                   prefix = Document
            /\ sanitizer.filename = ExampleName =>
                   prefix = <<"H", "y", "d", "r", "a", "u", "l", "i", "c", "s", "_",
                              "M", "a", "n", "u", "a", "l", "_", "v", "3">>

\* C29 witness: a filename whose stem has more than 80 characters, with characters
\* outside the kept class among them, got a prefix of exactly 80 characters.
C29_Witness ==
    /\ sanitizer.pc = "done"
    /\ Len(path_stem(sanitizer.filename)) > 80
    /\ \E i \in 1..Len(sanitizer.filename) : sanitizer.filename[i] \notin Kept
    /\ Len(sanitizer.prefix) = 80
    /\ sanitizer.prefix[80] = "_"

\* the worker of thread t is past its read of processing_request.json (lines 51-62)
ConfigRead(t) == worker_running(t) /\ wpc[t] \notin {"w_begin", "w_config"}

\* C31: when the supervising thread of an accepted request starts its worker process,
\* the job id is in the guard and the handler has written the 'extracting' record and
\* processing_request.json of this request, both still stored unless storage was
\* cleaned; a worker that has read its configuration holds the configuration of its
\* own request (the default one if storage was cleaned under it), never that of an
\* earlier request for the job.
C31_ConfigBeforeWorker ==
    /\ [][\A t \in Threads :
            (pc[t] = "bg_spawn" /\ wpc'[t] = "w_begin") =>
                /\ job[t] \in extracting
                /\ metaWrites[t].extracting = 1
                /\ nCleans = 0 => (meta[job[t]] = ExtractingMeta /\ config[job[t]] = t)]_vars
    /\ [](\A t \in Threads :
            ConfigRead(t) =>
                /\ wCfg[t] \in {t, NoThread}
                /\ nCleans = 0 => wCfg[t] = t)

\* C31 witness: an attempt for a job ended, a retry of the same job was accepted, and
\* the worker of the retry has read the configuration of the retry.
C31_Witness ==
    \E t1, t2 \in Threads :
        /\ t1 < t2 /\ job[t1] = job[t2]
        /\ pc[t1] = "done" /\ resp[t1] = "started"
        /\ nCleans = 0
        /\ ConfigRead(t2) /\ wCfg[t2] = t2

\* C32: a request that was accepted and then failed in the handler, after the guard
\* insert and before its supervising thread runs, leaves with its job id removed from
\* the guard.
C32_GuardReleasedOnHandlerFailure ==
    [][\A t \in Threads :
          (pc[t] \in HandlerAccepted /\ pc'[t] = "done" /\ resp'[t] = "error") =>
              job[t] \notin extracting']_vars

\* the positions inside a `with _extracting_lock:` block (lines 166-174, 80-81, 113-114,
\* 152-153)
LockedPcs == {"ej_check", "ej_add", "bg_discard"}

\* C33: the guard lock is held only inside the test-and-insert block of the handler and
\* the discard block of the supervising thread: its holder has no worker process, and
\* the holder's next step leaves the block (or goes from the test to the insert)
\* without writing a file, so the lock is never held while a worker runs for the
\* holder or while files are written.
C33_LockHeldBriefly ==
    /\ [](\A t \in Threads :
            extracting_lock = t => pc[t] \in LockedPcs /\ wpc[t] = "none")
    /\ [][\A t \in Threads :
            (extracting_lock = t /\ pc'[t] # pc[t]) =>
                /\ extracting_lock' = NoThread \/ (pc[t] = "ej_check" /\ pc'[t] = "ej_add")
                /\ UNCHANGED fsVars]_vars

\* C33 witness: while the worker of one job is running, a request for another job holds
\* the guard lock.
C33_Witness ==
    \E t1, t2 \in Threads :
        /\ job[t1] # job[t2]
        /\ worker_running(t1)
        /\ extracting_lock = t2 /\ pc[t2] = "ej_add"

\* the positions of try_placeholder_fallback and of the record written after it
FallbackPcs == {"bg_fb_md", "bg_fb_json", "bg_fb_exists", "bg_fb_meta"}

\* C34: while the fallback extractor of a supervising thread runs, and from then to the
\* end of the thread, no worker process exists for its attempt and none runs for its
\* job; the worker writes a metadata record only while its supervising thread waits
\* for it and has written no terminal record.
C34_FallbackAfterWorker ==
    /\ [](\A t \in Threads :
            pc[t] \in SupervisorPcs \ {"bg_spawn", "bg_wait"} =>
                /\ ~WorkerInFlight(t)
                /\ \A u \in Threads : job[u] = job[t] => ~worker_running(u))
    /\ [][\A t \in Threads :
            (wpc[t] \in {"w_except", "w_meta"} /\ wpc'[t] # wpc[t]
                 /\ meta'[job[t]] # meta[job[t]]) =>
                /\ pc[t] = "bg_wait"
                /\ metaWrites[t].terminal = 0
                /\ \A u \in Threads : job[u] = job[t] => pc[u] \notin FallbackPcs]_vars

\* C34 witness: the wait timed out on a worker that had converted the document; the
\* worker is gone and the fallback extractor is writing its own files.
C34_Witness ==
    \E t \in Threads :
        /\ pc[t] = "bg_fb_json"
        /\ exit_code[t] = "timeout"
        /\ progress[job[t]] >= 60
        /\ docMd[job[t]]
        /\ wpc[t] = "none"

\* C35: an attempt that ends with the stored status completed leaves the progress
\* snapshot of its job at percent 100 (no step writes the snapshot of the job after
\* the attempt is over, so a snapshot below 100 at that moment stays below 100).
C35_CompletedReads100 ==
    [][\A t \in Threads :
          (pc[t] = "bg_discard" /\ pc'[t] = "done"
               /\ meta'[job[t]].status = "completed") =>
              progress'[job[t]] = 100]_vars

\* thread t carries a retry: an earlier accepted attempt for its job is over
Retry(t) ==
    \E u \in Threads :
        u < t /\ job[u] = job[t] /\ pc[u] = "done" /\ resp[u] = "started"

\* C36: a progress read answered while the supervising thread of an accepted retry runs
\* returns percent 100 only if the worker of that retry has written its last
\* checkpoint and returned 0.
C36_NoStaleComplete ==
    [][\A j \in Jobs :
          (nReads' = nReads + 1 /\ reply'.op = "get_job_progress" /\ reply'.job = j
               /\ reply'.percent = 100) =>
              \A t \in Threads :
                  (job[t] = j /\ pc[t] \in SupervisorPcs /\ Retry(t)) =>
                      wpc[t] = "exit_zero" \/ exit_code[t] = "exit_zero"]_vars

\* the paragraphs of a text that are not blank, in their order
NonBlank(paragraphs) == SelectSeq(paragraphs, LAMBDA p : strip(p) # <<>>)

\* paragraphs i..j of P joined by blank lines, without the white space at the two ends
RunText(P, i, j) == strip(join(<<"\n", "\n">>, SubSeq(P, i, j)))

\* a text with every paragraph separator reduced to one blank line
Normal(text) == RunText(NonBlank(split_paragraphs(text)), 1,
                        Len(NonBlank(split_paragraphs(text))))

\* window w is paragraphs i..j of P joined by blank lines; `exact` asks for the text
\* itself, otherwise the separators of w may be any white space with a blank line
IsRun(w, P, i, j, exact) ==
    IF exact THEN w = RunText(P, i, j) ELSE Normal(w) = RunText(P, i, j)

\* windows k.. of W are runs of consecutive paragraphs of P, each starting no earlier
\* than the one before it, ending at least `gain` paragraphs after it and leaving no
\* paragraph out, the last one ending with the last paragraph; the window before
\* them is the run pi..pj
RECURSIVE Tiled(_, _, _, _, _, _, _)
Tiled(W, P, k, pi, pj, exact, gain) ==
    IF k > Len(W) THEN pj = Len(P)
    ELSE \E i \in pi..(pj + 1), j \in (pj + gain)..Len(P) :
             /\ i >= 1 /\ i <= j
             /\ IsRun(W[k], P, i, j, exact)
             /\ Tiled(W, P, k + 1, i, j, exact, gain)

\* C37: every window returned by split_to_token_windows is a run of consecutive whole
\* non-blank paragraphs of the text joined by blank lines (stripped of the white space
\* at its two ends; a text returned as one window keeps its own separators): the
\* first window starts with the first paragraph, the last one ends with the last, no
\* paragraph is left out between two windows, and the runs never go back, so no
\* paragraph is split, every non-blank paragraph is in a window and the input order
\* is kept within and across windows.
C37_WindowsAreParagraphRuns ==
    windower.pc = "done" =>
        Tiled(windower.windows, NonBlank(split_paragraphs(windower.text)), 1, 1, 0,
              approx_tokens(windower.text) > windower.target_tokens, 0)

\* C37 witness: a call that returned several windows, one of them a single paragraph
\* of more tokens than target_tokens.
C37_Witness ==
    /\ windower.pc = "done"
    /\ Len(windower.windows) >= 3
    /\ \E k \in 1..Len(windower.windows) :
           /\ windower.windows[k] \in ParagraphSamples
           /\ approx_tokens(windower.windows[k]) > windower.target_tokens

\* C38: for every text, every target_tokens >= 1 and every overlap_tokens >= 0, also
\* with overlap_tokens >= target_tokens, a call of split_to_token_windows returns: its
\* first step returns at once or enters the loop, the loop is always left, every turn
\* of it taking one paragraph off the list left to read; and in what the call
\* returns every window ends with a paragraph later than the last paragraph of the
\* window before it, so every window after the first holds a paragraph no earlier
\* window holds and there are at most as many windows as non-blank paragraphs.
C38_WindowerTerminates ==
    /\ [][(windower.pc = "call" /\ windower' # windower) =>
              windower'.pc \in {"loop", "done"}]_vars
    /\ (windower.pc = "loop") ~> (windower.pc = "done")
    /\ [][(windower.pc = "loop" /\ windower' # windower) =>
              \/ Len(windower'.paragraphs) < Len(windower.paragraphs)
              \/ windower'.pc = "done"]_vars
    /\ [](windower.pc = "done" =>
            /\ Len(windower.windows) <= Len(NonBlank(split_paragraphs(windower.text)))
            /\ Tiled(windower.windows, NonBlank(split_paragraphs(windower.text)), 1, 1, 0,
                     approx_tokens(windower.text) > windower.target_tokens, 1))

\* C38 witness: a call with overlap_tokens >= target_tokens has returned, with as many
\* windows as the text has paragraphs, each window after the first repeating
\* paragraphs of the one before it.
C38_Witness ==
    /\ windower.pc = "done"
    /\ windower.overlap_tokens >= windower.target_tokens
    /\ Len(windower.windows) = MaxParagraphs
    /\ Len(NonBlank(split_paragraphs(windower.text))) = MaxParagraphs
    /\ \A k \in 2..Len(windower.cut) : Len(windower.cut[k]) >= 2

\* C39: when the worker writes the completed record, the manifest is stored, and its
\* num_chunks equals stats.num_chunks of the record written and the number of records
\* in the chunks file of the job (0 without a chunks file).
C39_ManifestMatchesChunks ==
    [][\A t \in Threads :
          (wpc[t] = "w_meta" /\ wpc'[t] = "w_progress100") =>
              /\ manifest'[job[t]] # -1
              /\ manifest'[job[t]] = meta'[job[t]].stats.num_chunks
              /\ manifest'[job[t]] = IF chunksFile'[job[t]] = -1 THEN 0
                                     ELSE chunksFile'[job[t]]]_vars

====
